---- MODULE Spec2Model ----
(***************************************************************************)
(* hwhkit-go: the RBAC engine (pkg/auth/rbac.go), the two JWT managers,    *)
(* the password manager and the authentication service                     *)
(* (pkg/auth/manager.go and the auth.go half of unnamed/part_005) and the  *)
(* rate limiter (pkg/middleware/ratelimit.go) as state                     *)
(* machines.  Go maps are functions whose DOMAIN is the set of keys; Go    *)
(* slices are sequences; a Go string that the code slices is a sequence of *)
(* one-character strings.                                                  *)
(***************************************************************************)
EXTENDS Integers, Sequences, FiniteSets, TLC

VARIABLES
    permissions,   \* RBAC.permissions : id -> Permission
    roles,         \* RBAC.roles       : id -> Role
    userRoles,     \* RBAC.userRoles   : user id -> slice of role ids
    last,          \* the last call: [op, args, err, ret, pre, panic]; pre is a
                   \* history field, the part of the state the call started from
    now,           \* the wall clock, in ticks (TicksPerSecond per second)
    held,          \* the credential the client holds: nothing, a token or a pair
    advances,      \* number of clock advances so far
    users,         \* the user store behind AuthService: key -> User
    tb,            \* a tokenBucket on its own: [tokens, capacity, rate, lastRefill]
    sw,            \* a slidingWindow on its own: [requests, limit, window]
    hist,          \* history of the bucket or window on its own: when it was
                   \* made and the [t, ok] of every check since
    rl,            \* the rateLimiter: [buckets, windows, config, mutex]; the
                   \* maps hold pointers, addresses of the heap
    heap,          \* address -> [kind, val, mutex]: the buckets and windows
                   \* the registry or a goroutine points to
    procs,         \* goroutine -> [pc, op, key, obj, exists, ok] inside
                   \* rateLimiter.allow / allowSliding
    sweeper,       \* the goroutine of cleanup: [pc, pending, start, now]
    ledger         \* history: calls begun, the time of the last check of each
                   \* key, and per bucket the tokens at its last refill and
                   \* the checks admitted since

rbacVars == <<permissions, roles, userRoles>>
jwtVars  == <<now, held, advances>>
authVars == <<users>>
limiterVars == <<rl, heap, procs, sweeper, ledger>>
rlVars   == <<tb, sw, hist, limiterVars>>
vars     == <<permissions, roles, userRoles, last, now, held, advances, users,
             tb, sw, hist, rl, heap, procs, sweeper, ledger>>

(***************************************************************************)
(* Bounds                                                                  *)
(***************************************************************************)
\* longest Permissions list a role may carry (input lists and appends)
MaxRolePerms == 2

\* resolution of the model's clock: ticks per second
TicksPerSecond == 2

\* number of times the clock is advanced in one behaviour
MaxAdvances == 3

\* seconds in time.Hour
SecondsPerHour == 3600

\* width in bits of the Go int the model computes with (the build's is 32 or 64)
IntBits == 16

\* number of checks made on one token bucket or one sliding window
MaxCalls == 4

\* number of rateLimiter.allow / allowSliding calls begun in one behaviour
MaxChecks == 3

\* seconds in time.Minute
SecondsPerMinute == 60

\* minutes a bucket may stay unused before cleanup deletes it
IdleMinutes == 10

\* ------------------------------------------------------------------------
\* Go map and slice helpers
\* ------------------------------------------------------------------------
EmptyMap == <<>>

HasKey(m, k) == k \in DOMAIN m

MapPut(m, k, v) == [x \in (DOMAIN m) \cup {k} |-> IF x = k THEN v ELSE m[x]]

MapDelete(m, k) == [x \in (DOMAIN m) \ {k} |-> m[x]]

\* m[k] on a map of slices: the zero value (nil slice) when the key is absent
SliceAt(m, k) == IF k \in DOMAIN m THEN m[k] ELSE <<>>

\* append(s[:i], s[i+1:]...) with i the 1-based index
RemoveAt(s, i) == SubSeq(s, 1, i - 1) \o SubSeq(s, i + 1, Len(s))

Range(s) == {s[i] : i \in 1..Len(s)}

SeqsUpTo(S, n) == UNION {[1..k -> S] : k \in 0..n}

\* ------------------------------------------------------------------------
\* Inputs of the RBAC calls
\* ------------------------------------------------------------------------
Users == {"u1", "u2"}

RoleIds == {"r1", "r2"}

PermIds == {"p1", "p2"}

Permission(id, name, resource, action) ==
    [ID |-> id, Name |-> name, Resource |-> resource, Action |-> action]

\* the well-formed permissions a caller registers or puts into a role literal
PermissionValues ==
    { Permission("p1", "n", "user", "read"),
      Permission("p2", "n", "user", "write") }

\* registrations of one id with different resources and actions, next to a
\* second id: what a caller passes when it registers a permission again
PermissionVariants ==
    { Permission("p1", "n", "user", "read"),
      Permission("p1", "n", "user", "write"),
      Permission("p1", "n", "order", "read"),
      Permission("p2", "n", "user", "write") }

PermissionVariantInputs ==
    PermissionVariants \cup
    { Permission("", "n", "user", "read"), Permission("p1", "", "user", "read") }

VariantResources == {"user", "order"}

VariantActions == {"read", "write"}

PermissionInputs ==
    PermissionValues \cup
    { Permission("", "n", "user", "read"), Permission("p1", "", "user", "read") }

Role(id, name, perms) == [ID |-> id, Name |-> name, Permissions |-> perms]

\* roles registered without permissions, which are attached afterwards
BareRoleInputs == { Role("r1", "n", <<>>) }

RoleInputs ==
    { Role(id, "n", ps) : id \in RoleIds, ps \in SeqsUpTo(PermissionValues, MaxRolePerms) }
    \cup { Role("", "n", <<>>), Role("r1", "", <<>>) }

\* Inputs of the query specification: role literals as the tests build them
\* (rbac_test.go, TestPolicyEvaluator), with both kinds of wildcard
QueryUsers == {"u1"}

QueryPermLists ==
    { <<>>,
      <<Permission("p1", "n", "user", "read")>>,
      <<Permission("p1", "n", "user", "read"), Permission("p2", "n", "user", "write")>>,
      <<Permission("p2", "n", "admin", "write"), Permission("p3", "n", "admin", "read")>>,
      <<Permission("p1", "n", "*", "read")>>,
      <<Permission("p2", "n", "user", "*")>> }

QueryRoleInputs == { Role(id, "n", ps) : id \in RoleIds, ps \in QueryPermLists }

QueryResources == {"user", "admin"}

QueryActions == {"read", "write"}

CallFrom(op, args, err, ret, pre) ==
    [op |-> op, args |-> args, err |-> err, ret |-> ret, pre |-> pre, panic |-> FALSE]

Call(op, args, err, ret) == CallFrom(op, args, err, ret, <<>>)

\* ------------------------------------------------------------------------
\* RBAC helpers (rbac.go, "辅助方法")
\* ------------------------------------------------------------------------
\* removes the first entry with that id, then breaks out of the loop
removePermissionFromRole(perms, permissionID) ==
    LET hits == {i \in 1..Len(perms) : perms[i].ID = permissionID}
    IN  IF hits = {} THEN perms
        ELSE RemoveAt(perms, CHOOSE i \in hits : \A j \in hits : i <= j)

\* mutant: `return roles[:i]`, which drops the roles after the match too
removeRoleFromSliceTruncating(rs, roleID) ==
    LET hits == {i \in 1..Len(rs) : rs[i] = roleID}
    IN  IF hits = {} THEN rs
        ELSE SubSeq(rs, 1, (CHOOSE i \in hits : \A j \in hits : i <= j) - 1)

\* returns at the first match
removeRoleFromSlice(rs, roleID) ==
    LET hits == {i \in 1..Len(rs) : rs[i] = roleID}
    IN  IF hits = {} THEN rs
        ELSE RemoveAt(rs, CHOOSE i \in hits : \A j \in hits : i <= j)

\* mutant: the `seen` map is never consulted
deduplicatePermissionsKeepingAll(perms) == perms

\* keeps the first entry of every id, in order
deduplicatePermissions(perms) ==
    LET keep == {i \in 1..Len(perms) : \A j \in 1..(i - 1) : perms[j].ID # perms[i].ID}
        F[i \in 0..Len(perms)] ==
            IF i = 0 THEN <<>>
            ELSE IF i \in keep THEN Append(F[i - 1], perms[i]) ELSE F[i - 1]
    IN  F[Len(perms)]

\* ------------------------------------------------------------------------
\* RBAC queries
\* ------------------------------------------------------------------------
GetUserRoles(userID) == SliceAt(userRoles, userID)

GetUserPermissions(userID) ==
    LET rs == SliceAt(userRoles, userID)
        F[i \in 0..Len(rs)] ==
            IF i = 0 THEN <<>>
            ELSE IF HasKey(roles, rs[i]) THEN F[i - 1] \o roles[rs[i]].Permissions
                 ELSE F[i - 1]
    IN  deduplicatePermissions(F[Len(rs)])

HasPermission(userID, permissionID) ==
    LET ups == GetUserPermissions(userID)
    IN  \E i \in 1..Len(ups) : ups[i].ID = permissionID

\* mutant: a wildcard stands for its own field only
HasResourcePermissionFieldwise(userID, resource, action) ==
    LET ups == GetUserPermissions(userID)
    IN  \E i \in 1..Len(ups) :
            /\ ups[i].Resource = resource \/ ups[i].Resource = "*"
            /\ ups[i].Action = action \/ ups[i].Action = "*"

HasResourcePermission(userID, resource, action) ==
    LET ups == GetUserPermissions(userID)
    IN  \E i \in 1..Len(ups) :
            \/ ups[i].Resource = resource /\ ups[i].Action = action
            \/ ups[i].Resource = "*" \/ ups[i].Action = "*"

HasRole(userID, roleID) ==
    LET rs == SliceAt(userRoles, userID)
    IN  \E i \in 1..Len(rs) : rs[i] = roleID

HasAnyRole(userID, roleIDs) ==
    \E i \in 1..Len(roleIDs) : HasRole(userID, roleIDs[i])

\* ------------------------------------------------------------------------
\* Policy evaluator
\* ------------------------------------------------------------------------
Policy(resource, actions, rs, perms) ==
    [Resource |-> resource, Actions |-> actions, Roles |-> rs, Permissions |-> perms]

PolicyInputs ==
    { Policy(res, as, rs, ps) :
        res \in QueryResources,
        as \in {<<>>, <<"read">>, <<"read", "write">>},
        rs \in {<<>>, <<"r1">>, <<"r2", "r1">>},
        ps \in {<<>>, <<"p2">>, <<"p1", "p3">>} }

\* mutant: one listed permission is enough
EvaluatePolicyAnyPermission(userID, policy) ==
    IF Len(policy.Roles) > 0 /\ ~HasAnyRole(userID, policy.Roles)
    THEN FALSE
    ELSE IF Len(policy.Permissions) > 0
            /\ \A i \in 1..Len(policy.Permissions) :
                   ~HasPermission(userID, policy.Permissions[i])
    THEN FALSE
    ELSE IF \E i \in 1..Len(policy.Actions) :
                ~HasResourcePermission(userID, policy.Resource, policy.Actions[i])
    THEN FALSE
    ELSE TRUE

EvaluatePolicy(userID, policy) ==
    IF Len(policy.Roles) > 0 /\ ~HasAnyRole(userID, policy.Roles)
    THEN FALSE
    ELSE IF Len(policy.Permissions) > 0
            /\ \E i \in 1..Len(policy.Permissions) :
                   ~HasPermission(userID, policy.Permissions[i])
    THEN FALSE
    ELSE IF \E i \in 1..Len(policy.Actions) :
                ~HasResourcePermission(userID, policy.Resource, policy.Actions[i])
    THEN FALSE
    ELSE TRUE

\* ------------------------------------------------------------------------
\* RBAC operations
\* ------------------------------------------------------------------------
\* [err, permission]
GetPermission(permissionID) ==
    IF ~HasKey(permissions, permissionID)
    THEN [err |-> TRUE]
    ELSE [err |-> FALSE, permission |-> permissions[permissionID]]

\* mutant: a permission registered under a taken id does not replace the
\* registered one
AddPermissionKeepingFirst(permission) ==
    /\ IF permission.ID = "" \/ permission.Name = ""
       THEN /\ last' = Call("AddPermission", <<permission>>, TRUE, <<>>)
            /\ UNCHANGED permissions
       ELSE /\ permissions' = IF HasKey(permissions, permission.ID)
                              THEN permissions
                              ELSE MapPut(permissions, permission.ID, permission)
            /\ last' = Call("AddPermission", <<permission>>, FALSE, <<>>)
    /\ UNCHANGED <<roles, userRoles, jwtVars, rlVars, authVars>>

\* mutant: roles hold the registered permission by reference, so registering
\* it again changes every role that has it
AddPermissionUpdatingRoles(permission) ==
    /\ IF permission.ID = "" \/ permission.Name = ""
       THEN /\ last' = Call("AddPermission", <<permission>>, TRUE, <<>>)
            /\ UNCHANGED <<permissions, roles>>
       ELSE /\ permissions' = MapPut(permissions, permission.ID, permission)
            /\ roles' = [r \in DOMAIN roles |->
                            [roles[r] EXCEPT !.Permissions =
                                [i \in 1..Len(@) |->
                                    IF @[i].ID = permission.ID THEN permission ELSE @[i]]]]
            /\ last' = Call("AddPermission", <<permission>>, FALSE, <<>>)
    /\ UNCHANGED <<userRoles, jwtVars, rlVars, authVars>>

\* mutant: the permission is stored before its name is validated
AddPermissionStoringFirst(permission) ==
    /\ IF permission.ID = ""
       THEN /\ last' = Call("AddPermission", <<permission>>, TRUE, <<>>)
            /\ UNCHANGED permissions
       ELSE /\ permissions' = MapPut(permissions, permission.ID, permission)
            /\ last' = Call("AddPermission", <<permission>>, permission.Name = "", <<>>)
    /\ UNCHANGED <<roles, userRoles, jwtVars, rlVars, authVars>>

AddPermission(permission) ==
    /\ IF permission.ID = "" \/ permission.Name = ""
       THEN /\ last' = Call("AddPermission", <<permission>>, TRUE, <<>>)
            /\ UNCHANGED permissions
       ELSE /\ permissions' = MapPut(permissions, permission.ID, permission)
            /\ last' = Call("AddPermission", <<permission>>, FALSE, <<>>)
    /\ UNCHANGED <<roles, userRoles, jwtVars, rlVars, authVars>>

RemovePermission(permissionID) ==
    /\ IF ~HasKey(permissions, permissionID)
       THEN /\ last' = Call("RemovePermission", <<permissionID>>, TRUE, <<>>)
            /\ UNCHANGED <<permissions, roles>>
       ELSE /\ roles' = [r \in DOMAIN roles |->
                            [roles[r] EXCEPT !.Permissions =
                                removePermissionFromRole(@, permissionID)]]
            /\ permissions' = MapDelete(permissions, permissionID)
            /\ last' = Call("RemovePermission", <<permissionID>>, FALSE, <<>>)
    /\ UNCHANGED <<userRoles, jwtVars, rlVars, authVars>>

AddRole(role) ==
    /\ IF role.ID = "" \/ role.Name = ""
       THEN /\ last' = Call("AddRole", <<role>>, TRUE, <<>>)
            /\ UNCHANGED roles
       ELSE /\ roles' = MapPut(roles, role.ID, role)
            /\ last' = Call("AddRole", <<role>>, FALSE, <<>>)
    /\ UNCHANGED <<permissions, userRoles, jwtVars, rlVars, authVars>>

RemoveRole(roleID) ==
    /\ IF ~HasKey(roles, roleID)
       THEN /\ last' = Call("RemoveRole", <<roleID>>, TRUE, <<>>)
            /\ UNCHANGED <<roles, userRoles>>
       ELSE /\ userRoles' = [u \in DOMAIN userRoles |->
                                removeRoleFromSlice(userRoles[u], roleID)]
            /\ roles' = MapDelete(roles, roleID)
            /\ last' = CallFrom("RemoveRole", <<roleID>>, FALSE, <<>>, userRoles)
    /\ UNCHANGED <<permissions, jwtVars, rlVars, authVars>>

\* mutant: the loop that looks for the permission in the role is left out
AddPermissionToRoleAppending(roleID, permissionID) ==
    /\ IF ~HasKey(roles, roleID) \/ ~HasKey(permissions, permissionID)
       THEN /\ last' = Call("AddPermissionToRole", <<roleID, permissionID>>, TRUE, <<>>)
            /\ UNCHANGED roles
       ELSE /\ Len(roles[roleID].Permissions) < MaxRolePerms
            /\ roles' = [roles EXCEPT ![roleID].Permissions =
                            Append(@, permissions[permissionID])]
            /\ last' = Call("AddPermissionToRole", <<roleID, permissionID>>, FALSE, <<>>)
    /\ UNCHANGED <<permissions, userRoles, jwtVars, rlVars, authVars>>

AddPermissionToRole(roleID, permissionID) ==
    /\ IF ~HasKey(roles, roleID) \/ ~HasKey(permissions, permissionID)
       THEN /\ last' = Call("AddPermissionToRole", <<roleID, permissionID>>, TRUE, <<>>)
            /\ UNCHANGED roles
       ELSE IF \E i \in 1..Len(roles[roleID].Permissions) :
                   roles[roleID].Permissions[i].ID = permissionID
       THEN /\ last' = Call("AddPermissionToRole", <<roleID, permissionID>>, FALSE, <<>>)
            /\ UNCHANGED roles
       ELSE /\ Len(roles[roleID].Permissions) < MaxRolePerms
            /\ roles' = [roles EXCEPT ![roleID].Permissions =
                            Append(@, permissions[permissionID])]
            /\ last' = Call("AddPermissionToRole", <<roleID, permissionID>>, FALSE, <<>>)
    /\ UNCHANGED <<permissions, userRoles, jwtVars, rlVars, authVars>>

RemovePermissionFromRole(roleID, permissionID) ==
    /\ IF ~HasKey(roles, roleID)
       THEN /\ last' = Call("RemovePermissionFromRole", <<roleID, permissionID>>, TRUE, <<>>)
            /\ UNCHANGED roles
       ELSE /\ roles' = [roles EXCEPT ![roleID].Permissions =
                            removePermissionFromRole(@, permissionID)]
            /\ last' = Call("RemovePermissionFromRole", <<roleID, permissionID>>, FALSE, <<>>)
    /\ UNCHANGED <<permissions, userRoles, jwtVars, rlVars, authVars>>

\* mutant: the role is appended without looking for it in the user's slice
AssignRoleToUserAppending(userID, roleID) ==
    /\ IF ~HasKey(roles, roleID)
       THEN /\ last' = Call("AssignRoleToUser", <<userID, roleID>>, TRUE, <<>>)
            /\ UNCHANGED userRoles
       ELSE /\ userRoles' = MapPut(userRoles, userID,
                                   Append(SliceAt(userRoles, userID), roleID))
            /\ last' = Call("AssignRoleToUser", <<userID, roleID>>, FALSE, <<>>)
    /\ UNCHANGED <<permissions, roles, jwtVars, rlVars, authVars>>

AssignRoleToUser(userID, roleID) ==
    /\ IF ~HasKey(roles, roleID)
       THEN /\ last' = Call("AssignRoleToUser", <<userID, roleID>>, TRUE, <<>>)
            /\ UNCHANGED userRoles
       ELSE IF \E i \in 1..Len(SliceAt(userRoles, userID)) :
                   SliceAt(userRoles, userID)[i] = roleID
       THEN /\ last' = Call("AssignRoleToUser", <<userID, roleID>>, FALSE, <<>>)
            /\ UNCHANGED userRoles
       ELSE /\ userRoles' = MapPut(userRoles, userID,
                                   Append(SliceAt(userRoles, userID), roleID))
            /\ last' = Call("AssignRoleToUser", <<userID, roleID>>, FALSE, <<>>)
    /\ UNCHANGED <<permissions, roles, jwtVars, rlVars, authVars>>

\* mutant: the user's entry is deleted when its last role is removed
RemoveRoleFromUserDeletingEntry(userID, roleID) ==
    /\ IF ~HasKey(userRoles, userID)
       THEN /\ last' = Call("RemoveRoleFromUser", <<userID, roleID>>, TRUE, <<>>)
            /\ UNCHANGED userRoles
       ELSE /\ userRoles' =
                  IF removeRoleFromSlice(userRoles[userID], roleID) = <<>>
                  THEN MapDelete(userRoles, userID)
                  ELSE MapPut(userRoles, userID,
                              removeRoleFromSlice(userRoles[userID], roleID))
            /\ last' = Call("RemoveRoleFromUser", <<userID, roleID>>, FALSE, <<>>)
    /\ UNCHANGED <<permissions, roles, jwtVars, rlVars, authVars>>

RemoveRoleFromUser(userID, roleID) ==
    /\ IF ~HasKey(userRoles, userID)
       THEN /\ last' = Call("RemoveRoleFromUser", <<userID, roleID>>, TRUE, <<>>)
            /\ UNCHANGED userRoles
       ELSE /\ userRoles' = MapPut(userRoles, userID,
                                   removeRoleFromSlice(userRoles[userID], roleID))
            /\ last' = Call("RemoveRoleFromUser", <<userID, roleID>>, FALSE, <<>>)
    /\ UNCHANGED <<permissions, roles, jwtVars, rlVars, authVars>>

\* the read-only calls: the result is left in last.ret
GetPermissionCall(permissionID) ==
    LET r == GetPermission(permissionID)
    IN  /\ last' = Call("GetPermission", <<permissionID>>, r.err,
                        IF r.err THEN <<>> ELSE r.permission)
        /\ UNCHANGED <<rbacVars, authVars, jwtVars, rlVars>>

GetUserPermissionsCall(userID) ==
    /\ last' = Call("GetUserPermissions", <<userID>>, FALSE, GetUserPermissions(userID))
    /\ UNCHANGED <<rbacVars, authVars, jwtVars, rlVars>>

HasResourcePermissionCall(userID, resource, action) ==
    /\ last' = Call("HasResourcePermission", <<userID, resource, action>>, FALSE,
                    HasResourcePermission(userID, resource, action))
    /\ UNCHANGED <<rbacVars, authVars, jwtVars, rlVars>>

EvaluatePolicyCall(userID, policy) ==
    /\ last' = Call("EvaluatePolicy", <<userID, policy>>, FALSE,
                    EvaluatePolicy(userID, policy))
    /\ UNCHANGED <<rbacVars, authVars, jwtVars, rlVars>>

\* ------------------------------------------------------------------------
\* Time and strings of the token managers
\* ------------------------------------------------------------------------
\* jwt.NewNumericDate truncates to jwt.TimePrecision, one second
NumericDate(t) == t \div TicksPerSecond

Hours(h) == h * SecondsPerHour * TicksPerSecond

DigitChar(d) == <<"0", "1", "2", "3", "4", "5", "6", "7", "8", "9">>[d + 1]

RECURSIVE Digits(_)
Digits(n) == IF n < 10 THEN <<DigitChar(n)>>
             ELSE Append(Digits(n \div 10), DigitChar(n % 10))

\* fmt.Sprintf("%d", n)
SprintfD(n) == IF n < 0 THEN <<"-">> \o Digits(0 - n) ELSE Digits(n)

RefreshPrefix == <<"r", "e", "f", "r", "e", "s", "h", ":">>

NoError == <<>>

\* fmt.Errorf("msg: %w", err): the message chain, outermost first
Wrap(msg, err) == <<msg>> \o err

Contains(err, msg) == \E i \in 1..Len(err) : err[i] = msg

\* ------------------------------------------------------------------------
\* Strings, as sequences of characters
\* ------------------------------------------------------------------------
UpperLetters ==
    <<"A", "B", "C", "D", "E", "F", "G", "H", "I", "J", "K", "L", "M",
      "N", "O", "P", "Q", "R", "S", "T", "U", "V", "W", "X", "Y", "Z">>

LowerLetters ==
    <<"a", "b", "c", "d", "e", "f", "g", "h", "i", "j", "k", "l", "m",
      "n", "o", "p", "q", "r", "s", "t", "u", "v", "w", "x", "y", "z">>

DigitChars == <<"0", "1", "2", "3", "4", "5", "6", "7", "8", "9">>

IsUpper(c) == c \in Range(UpperLetters)

IsLower(c) == c \in Range(LowerLetters)

IsDigit(c) == c \in Range(DigitChars)

\* strings.ToLower on an ASCII string
ToLower(str) ==
    [i \in 1..Len(str) |->
        IF IsUpper(str[i])
        THEN LowerLetters[CHOOSE k \in 1..Len(UpperLetters) : UpperLetters[k] = str[i]]
        ELSE str[i]]

\* strings.SplitN(str, " ", 2): the string itself when it has no space, else
\* what is before the first space and everything after it
SplitN2(str) ==
    IF \A i \in 1..Len(str) : str[i] # " "
    THEN <<str>>
    ELSE LET i == CHOOSE k \in 1..Len(str) :
                      str[k] = " " /\ \A j \in 1..(k - 1) : str[j] # " "
         IN  <<SubSeq(str, 1, i - 1), SubSeq(str, i + 1, Len(str))>>

NoCredential == [kind |-> "none"]

HeldToken(t) == [kind |-> "token", token |-> t]

HeldPair(p) == [kind |-> "pair", pair |-> p]

TokensOf(h) ==
    IF h.kind = "token" THEN {h.token}
    ELSE IF h.kind = "pair" THEN {h.pair.AccessToken, h.pair.RefreshToken}
    ELSE {}

\* ------------------------------------------------------------------------
\* Inputs of the token managers
\* ------------------------------------------------------------------------
JWTConfig(secret, expireHours, refreshHours, issuer) ==
    [Secret |-> secret, ExpireHours |-> expireHours,
     RefreshHours |-> refreshHours, Issuer |-> issuer]

Configs ==
    { JWTConfig("test-secret-key", 1, 2, "test-app"),
      JWTConfig("test-secret-key", 0, 1, "test-app") }

\* (userID, username, email, role) as passed to Manager.GenerateToken
ManagerUsers ==
    { <<123, "testuser", "test@example.com", "user">>,
      <<12345678, "service", "", "">> }

User(id, username, email, rs) ==
    [ID |-> id, Username |-> username, Email |-> email, Roles |-> rs]

JWTUsers == { User("123", "testuser", "test@example.com", <<"user">>) }

\* managers of other deployments that are handed the client's token: one shares
\* the secret and has another issuer, one has another secret
ForeignConfigs ==
    { JWTConfig("test-secret-key", 1, 2, "other-app"),
      JWTConfig("different-secret", 1, 2, "test-app") }

ValidatorConfigs == Configs \cup ForeignConfigs

\* requiredRoles ...string of Manager.ValidateRole
RequiredRoleInputs == { <<>>, <<"user">>, <<"admin", "user">>, <<"admin">> }

ClockSteps == {1, TicksPerSecond, Hours(1)}

\* ------------------------------------------------------------------------
\* The jwt library as the managers use it: HS256 tokens
\* ------------------------------------------------------------------------
\* jwt.NewWithClaims(SigningMethodHS256, claims).SignedString(secret): the
\* token string is determined by the header, the claims and the key
SignedString(mgr, claims, secret) ==
    [mgr |-> mgr, alg |-> "HS256", claims |-> claims, key |-> secret]

\* mutant: the signature is not compared with the one the key produces
ParseWithClaimsUnverified(tok, secret, validate, t) ==
    IF tok.alg # "HS256"
    THEN [err |-> <<"token is unverifiable", "unexpected signing method">>,
          valid |-> FALSE, claims |-> tok.claims]
    ELSE IF validate /\ ~(t < tok.claims.ExpiresAt * TicksPerSecond)
    THEN [err |-> <<"token has invalid claims", "token is expired">>,
          valid |-> FALSE, claims |-> tok.claims]
    ELSE [err |-> NoError, valid |-> TRUE, claims |-> tok.claims]

\* jwt.ParseWithClaims with the managers' key function; validate = FALSE is
\* jwt.WithoutClaimsValidation()
ParseWithClaims(tok, secret, validate, t) ==
    IF tok.alg # "HS256"
    THEN [err |-> <<"token is unverifiable", "unexpected signing method">>,
          valid |-> FALSE, claims |-> tok.claims]
    ELSE IF tok.key # secret
    THEN [err |-> <<"token signature is invalid">>,
          valid |-> FALSE, claims |-> tok.claims]
    ELSE IF validate /\ ~(t < tok.claims.ExpiresAt * TicksPerSecond)
    THEN [err |-> <<"token has invalid claims", "token is expired">>,
          valid |-> FALSE, claims |-> tok.claims]
    ELSE IF validate /\ t < tok.claims.NotBefore * TicksPerSecond
    THEN [err |-> <<"token has invalid claims", "token is not valid yet">>,
          valid |-> FALSE, claims |-> tok.claims]
    ELSE [err |-> NoError, valid |-> TRUE, claims |-> tok.claims]

\* ------------------------------------------------------------------------
\* auth.Manager (manager.go); the clock is read once per call
\* ------------------------------------------------------------------------
MgrGenerateToken(cfg, userID, username, email, role, t) ==
    SignedString("Manager",
        [UserID |-> userID, Username |-> username, Email |-> email, Role |-> role,
         Issuer |-> cfg.Issuer, Subject |-> SprintfD(userID),
         Audience |-> <<cfg.Issuer>>,
         ExpiresAt |-> NumericDate(t + Hours(cfg.ExpireHours)),
         NotBefore |-> NumericDate(t), IssuedAt |-> NumericDate(t)],
        cfg.Secret)

MgrGenerateRefreshToken(cfg, userID, username, t) ==
    SignedString("Manager",
        [UserID |-> userID, Username |-> username, Email |-> "", Role |-> "",
         Issuer |-> cfg.Issuer, Subject |-> RefreshPrefix \o SprintfD(userID),
         Audience |-> <<cfg.Issuer>>,
         ExpiresAt |-> NumericDate(t + Hours(cfg.RefreshHours)),
         NotBefore |-> NumericDate(t), IssuedAt |-> NumericDate(t)],
        cfg.Secret)

MgrGenerateTokenPair(cfg, userID, username, email, role, t) ==
    [AccessToken |-> MgrGenerateToken(cfg, userID, username, email, role, t),
     RefreshToken |-> MgrGenerateRefreshToken(cfg, userID, username, t),
     ExpiresAt |-> (t + Hours(cfg.ExpireHours)) \div TicksPerSecond,
     TokenType |-> "Bearer"]

\* [err, claims]
MgrValidateToken(cfg, tok, t) ==
    LET parsed == ParseWithClaims(tok, cfg.Secret, TRUE, t)
    IN  IF parsed.err # NoError
        THEN [err |-> Wrap("failed to parse token", parsed.err)]
        ELSE IF ~parsed.valid
        THEN [err |-> <<"invalid token">>]
        ELSE IF parsed.claims.Issuer # cfg.Issuer
        THEN [err |-> <<"invalid token issuer">>]
        ELSE [err |-> NoError, claims |-> parsed.claims]

\* mutant: jwt.WithoutClaimsValidation() is left out
MgrGetTokenClaimsValidating(cfg, tok, t) ==
    LET parsed == ParseWithClaims(tok, cfg.Secret, TRUE, t)
    IN  IF parsed.err # NoError
        THEN [err |-> Wrap("failed to parse token", parsed.err)]
        ELSE [err |-> NoError, claims |-> parsed.claims]

MgrGetTokenClaims(cfg, tok, t) ==
    LET parsed == ParseWithClaims(tok, cfg.Secret, FALSE, t)
    IN  IF parsed.err # NoError
        THEN [err |-> Wrap("failed to parse token", parsed.err)]
        ELSE [err |-> NoError, claims |-> parsed.claims]

\* mutant: the role requirement is looked at before the token
MgrValidateRoleRolesFirst(cfg, tok, requiredRoles, t) ==
    LET v == MgrValidateToken(cfg, tok, t)
    IN  IF Len(requiredRoles) = 0
        THEN NoError
        ELSE IF v.err # NoError
        THEN v.err
        ELSE IF \E i \in 1..Len(requiredRoles) : v.claims.Role = requiredRoles[i]
        THEN NoError
        ELSE <<"insufficient permissions">>

\* the error of Manager.ValidateRole; the message "insufficient permissions:
\* required one of %v, got %s" is kept up to its colon
MgrValidateRole(cfg, tok, requiredRoles, t) ==
    LET v == MgrValidateToken(cfg, tok, t)
    IN  IF v.err # NoError
        THEN v.err
        ELSE IF Len(requiredRoles) = 0
        THEN NoError
        ELSE IF \E i \in 1..Len(requiredRoles) : v.claims.Role = requiredRoles[i]
        THEN NoError
        ELSE <<"insufficient permissions">>

\* [panic, err, pair]; claims.Subject[:8] panics when the subject is shorter
\* than 8 bytes (slice bounds out of range)
MgrRefreshToken(cfg, tok, t) ==
    LET v == MgrValidateToken(cfg, tok, t)
    IN  IF v.err # NoError
        THEN [panic |-> FALSE, err |-> Wrap("invalid refresh token", v.err)]
        ELSE IF v.claims.Subject = <<>>
        THEN [panic |-> FALSE, err |-> <<"not a refresh token">>]
        ELSE IF Len(v.claims.Subject) < 8
        THEN [panic |-> TRUE, err |-> NoError]
        ELSE IF SubSeq(v.claims.Subject, 1, 8) # RefreshPrefix
        THEN [panic |-> FALSE, err |-> <<"not a refresh token">>]
        ELSE [panic |-> FALSE, err |-> NoError,
              pair |-> MgrGenerateTokenPair(cfg, v.claims.UserID, v.claims.Username,
                                            v.claims.Email, v.claims.Role, t)]

\* ------------------------------------------------------------------------
\* auth.JWTManager (auth.go)
\* ------------------------------------------------------------------------
\* the authorization schemes and the tokens headers are made of
\* (auth_test.go, TestJWTManagerExtractToken), in several spellings
HeaderSchemes ==
    { <<>>,
      <<"B", "e", "a", "r", "e", "r">>,
      <<"b", "e", "a", "r", "e", "r">>,
      <<"B", "E", "A", "R", "E", "R">>,
      <<"B", "e", "a", "r", "e", "r", "s">>,
      <<"B", "a", "s", "i", "c">>,
      <<"a", "b", "c", "1", "2", "3">> }

HeaderSeparators == { <<>>, <<" ">>, <<" ", " ">> }

HeaderTokens ==
    { <<>>,
      <<"x">>,
      <<"a", "b", "c", "1", "2", "3">>,
      <<"a", "b", "c", "1", "2", "3", "d", "e", "f", "4", "5", "6">>,
      <<"a", " ", "b">>,
      <<"B", "e", "a", "r", "e", "r", " ", "x">> }

HeaderInputs ==
    { sch \o sep \o t : sch \in HeaderSchemes, sep \in HeaderSeparators,
                         t \in HeaderTokens }

\* [err, token]
ExtractTokenFromHeader(authHeader) ==
    LET parts == SplitN2(authHeader)
    IN  IF authHeader = <<>>
        THEN [err |-> <<"authorization header is empty">>]
        ELSE IF Len(parts) # 2
                \/ ToLower(parts[1]) # <<"b", "e", "a", "r", "e", "r">>
        THEN [err |-> <<"authorization header format must be Bearer {token}">>]
        ELSE [err |-> NoError, token |-> parts[2]]

JmGenerateToken(cfg, user, t) ==
    SignedString("JWTManager",
        [UserID |-> user.ID, Username |-> user.Username, Email |-> user.Email,
         Roles |-> user.Roles,
         ExpiresAt |-> NumericDate(t + Hours(cfg.ExpireHours)),
         IssuedAt |-> NumericDate(t), NotBefore |-> NumericDate(t),
         Issuer |-> cfg.Issuer, Subject |-> user.ID],
        cfg.Secret)

JmGenerateRefreshToken(cfg, user, t) ==
    SignedString("JWTManager",
        [UserID |-> user.ID, Username |-> user.Username, Email |-> user.Email,
         Roles |-> user.Roles,
         ExpiresAt |-> NumericDate(t + Hours(cfg.RefreshHours)),
         IssuedAt |-> NumericDate(t), NotBefore |-> NumericDate(t),
         Issuer |-> cfg.Issuer, Subject |-> user.ID],
        cfg.Secret)

JmGenerateTokenPair(cfg, user, t) ==
    [AccessToken |-> JmGenerateToken(cfg, user, t),
     RefreshToken |-> JmGenerateRefreshToken(cfg, user, t),
     ExpiresIn |-> cfg.ExpireHours * SecondsPerHour,
     TokenType |-> "Bearer"]

JmValidateToken(cfg, tok, t) ==
    LET parsed == ParseWithClaims(tok, cfg.Secret, TRUE, t)
    IN  IF parsed.err # NoError
        THEN [err |-> parsed.err]
        ELSE IF parsed.valid
        THEN [err |-> NoError, claims |-> parsed.claims]
        ELSE [err |-> <<"invalid token">>]

JmRefreshToken(cfg, tok, t) ==
    LET v == JmValidateToken(cfg, tok, t)
    IN  IF v.err # NoError
        THEN [panic |-> FALSE, err |-> Wrap("invalid refresh token", v.err)]
        ELSE IF v.claims.ExpiresAt * TicksPerSecond < t
        THEN [panic |-> FALSE, err |-> <<"refresh token expired">>]
        ELSE [panic |-> FALSE, err |-> NoError,
              pair |-> JmGenerateTokenPair(cfg,
                          User(v.claims.UserID, v.claims.Username,
                               v.claims.Email, v.claims.Roles), t)]

\* ------------------------------------------------------------------------
\* Token manager calls; a call that consumes a token is given one the client
\* holds, issued by the same kind of manager
\* ------------------------------------------------------------------------
Advance(d) ==
    /\ advances < MaxAdvances
    /\ now' = now + d
    /\ advances' = advances + 1
    /\ last' = Call("Advance", <<d>>, NoError, <<>>)
    /\ UNCHANGED <<rbacVars, authVars, rlVars, held>>

ManagerGenerateToken(cfg, u) ==
    LET tok == MgrGenerateToken(cfg, u[1], u[2], u[3], u[4], now)
    IN  /\ held' = HeldToken(tok)
        /\ last' = Call("Manager.GenerateToken", <<cfg, u>>, NoError, tok)
        /\ UNCHANGED <<rbacVars, authVars, rlVars, now, advances>>

ManagerGenerateTokenPair(cfg, u) ==
    LET pair == MgrGenerateTokenPair(cfg, u[1], u[2], u[3], u[4], now)
    IN  /\ held' = HeldPair(pair)
        /\ last' = Call("Manager.GenerateTokenPair", <<cfg, u>>, NoError, pair)
        /\ UNCHANGED <<rbacVars, authVars, rlVars, now, advances>>

ManagerValidateToken(cfg, tok) ==
    LET v == MgrValidateToken(cfg, tok, now)
    IN  /\ tok.mgr = "Manager"
        /\ last' = Call("Manager.ValidateToken", <<cfg, tok>>, v.err,
                        IF v.err = NoError THEN v.claims ELSE <<>>)
        /\ UNCHANGED <<rbacVars, authVars, jwtVars, rlVars>>

ManagerGetTokenClaims(cfg, tok) ==
    LET v == MgrGetTokenClaims(cfg, tok, now)
    IN  /\ tok.mgr = "Manager"
        /\ last' = Call("Manager.GetTokenClaims", <<cfg, tok>>, v.err,
                        IF v.err = NoError THEN v.claims ELSE <<>>)
        /\ UNCHANGED <<rbacVars, authVars, jwtVars, rlVars>>

ManagerValidateRole(cfg, tok, requiredRoles) ==
    /\ tok.mgr = "Manager"
    /\ last' = Call("Manager.ValidateRole", <<cfg, tok, requiredRoles>>,
                    MgrValidateRole(cfg, tok, requiredRoles, now), <<>>)
    /\ UNCHANGED <<rbacVars, authVars, jwtVars, rlVars>>

ManagerRefreshToken(cfg, tok) ==
    LET r == MgrRefreshToken(cfg, tok, now)
        ok == ~r.panic /\ r.err = NoError
    IN  /\ tok.mgr = "Manager"
        /\ last' = [CallFrom("Manager.RefreshToken", <<cfg, tok>>, r.err,
                             IF ok THEN r.pair ELSE <<>>, held)
                        EXCEPT !.panic = r.panic]
        /\ held' = IF ok THEN HeldPair(r.pair) ELSE held
        /\ UNCHANGED <<rbacVars, authVars, rlVars, now, advances>>

JWTManagerGenerateToken(cfg, user) ==
    LET tok == JmGenerateToken(cfg, user, now)
    IN  /\ held' = HeldToken(tok)
        /\ last' = Call("JWTManager.GenerateToken", <<cfg, user>>, NoError, tok)
        /\ UNCHANGED <<rbacVars, authVars, rlVars, now, advances>>

JWTManagerGenerateTokenPair(cfg, user) ==
    LET pair == JmGenerateTokenPair(cfg, user, now)
    IN  /\ held' = HeldPair(pair)
        /\ last' = Call("JWTManager.GenerateTokenPair", <<cfg, user>>, NoError, pair)
        /\ UNCHANGED <<rbacVars, authVars, rlVars, now, advances>>

JWTManagerExtractTokenFromHeader(authHeader) ==
    LET r == ExtractTokenFromHeader(authHeader)
    IN  /\ last' = Call("JWTManager.ExtractTokenFromHeader", <<authHeader>>, r.err,
                        IF r.err = NoError THEN r.token ELSE <<>>)
        /\ UNCHANGED <<rbacVars, authVars, jwtVars, rlVars>>

JWTManagerValidateToken(cfg, tok) ==
    LET v == JmValidateToken(cfg, tok, now)
    IN  /\ tok.mgr = "JWTManager"
        /\ last' = Call("JWTManager.ValidateToken", <<cfg, tok>>, v.err,
                        IF v.err = NoError THEN v.claims ELSE <<>>)
        /\ UNCHANGED <<rbacVars, authVars, jwtVars, rlVars>>

JWTManagerRefreshToken(cfg, tok) ==
    LET r == JmRefreshToken(cfg, tok, now)
        ok == ~r.panic /\ r.err = NoError
    IN  /\ tok.mgr = "JWTManager"
        /\ last' = [CallFrom("JWTManager.RefreshToken", <<cfg, tok>>, r.err,
                             IF ok THEN r.pair ELSE <<>>, held)
                        EXCEPT !.panic = r.panic]
        /\ held' = IF ok THEN HeldPair(r.pair) ELSE held
        /\ UNCHANGED <<rbacVars, authVars, rlVars, now, advances>>

\* ------------------------------------------------------------------------
\* Go int arithmetic and time.Duration of the rate limiter (ratelimit.go)
\* ------------------------------------------------------------------------
\* ------------------------------------------------------------------------
\* auth.PasswordManager and auth.AuthService (auth.go)
\* ------------------------------------------------------------------------
AuthUser(id, username, email, password, rs, active) ==
    [ID |-> id, Username |-> username, Email |-> email, Password |-> password,
     Roles |-> rs, IsActive |-> active]

\* the salts bcrypt.GenerateFromPassword may draw
Salts == {"s1", "s2"}

\* bcrypt.GenerateFromPassword: the digest of the salt and the password, with
\* the salt next to it
HashPassword(password, salt) ==
    [alg |-> "bcrypt", salt |-> salt, digest |-> <<salt, password>>]

\* bcrypt.CompareHashAndPassword = nil: the password hashed with the hash's
\* salt gives the hash
CheckPassword(password, hash) == HashPassword(password, hash.salt) = hash

ValidatePasswordStrength(password) ==
    LET hasUpper == \E i \in 1..Len(password) : IsUpper(password[i])
        hasLower == \E i \in 1..Len(password) : IsLower(password[i])
        hasNumber == \E i \in 1..Len(password) : IsDigit(password[i])
        hasSpecial == \E i \in 1..Len(password) :
                          ~IsUpper(password[i]) /\ ~IsLower(password[i])
                              /\ ~IsDigit(password[i])
    IN  IF Len(password) < 8
        THEN <<"password must be at least 8 characters long">>
        ELSE IF ~hasUpper
        THEN <<"password must contain at least one uppercase letter">>
        ELSE IF ~hasLower
        THEN <<"password must contain at least one lowercase letter">>
        ELSE IF ~hasNumber
        THEN <<"password must contain at least one number">>
        ELSE IF ~hasSpecial
        THEN <<"password must contain at least one special character">>
        ELSE NoError

\* the store of TestAuthService (auth_test.go): a map keyed by username; the
\* creator gives the user its id and saves it under its username, the
\* provider looks its argument up in the map, the updater saves the user
\* under its username
GeneratedID == "generated-id-123"

userProvider(store, key) ==
    IF HasKey(store, key)
    THEN [err |-> NoError, user |-> store[key]]
    ELSE [err |-> <<"user not found">>]

userCreator(store, user) ==
    MapPut(store, user.Username, [user EXCEPT !.ID = GeneratedID])

userUpdater(store, user) == MapPut(store, user.Username, user)

AuthConfigs == { JWTConfig("test-secret", 1, 24, "test") }

AuthUsernames == {"testuser", "other"}

\* "Password123!", "NewPassword456!", "WrongPassword", "weak"
AuthPasswords ==
    { <<"P", "a", "s", "s", "w", "o", "r", "d", "1", "2", "3", "!">>,
      <<"N", "e", "w", "P", "a", "s", "s", "w", "o", "r", "d", "4", "5", "6", "!">>,
      <<"W", "r", "o", "n", "g", "P", "a", "s", "s", "w", "o", "r", "d">>,
      <<"w", "e", "a", "k">> }

\* what ChangePassword is called with as the user id
AuthUserIDs == {GeneratedID} \cup AuthUsernames

AuthServiceLogin(cfg, username, password) ==
    LET found == userProvider(users, username)
        err == IF found.err # NoError THEN Wrap("user not found", found.err)
               ELSE IF ~found.user.IsActive THEN <<"user account is disabled">>
               ELSE IF ~CheckPassword(password, found.user.Password)
               THEN <<"invalid password">>
               ELSE NoError
    IN  /\ last' = CallFrom("AuthService.Login", <<username, password>>, err,
                            IF err = NoError
                            THEN JmGenerateTokenPair(cfg, found.user, now)
                            ELSE <<>>, users)
        /\ UNCHANGED <<rbacVars, jwtVars, rlVars, authVars>>

AuthServiceRegister(cfg, username, email, password, rs) ==
    LET weak == ValidatePasswordStrength(password)
    IN  IF weak # NoError
        THEN /\ last' = CallFrom("AuthService.Register", <<username, email, password, rs>>,
                                 Wrap("password validation failed", weak), <<>>, users)
             /\ UNCHANGED <<rbacVars, jwtVars, rlVars, authVars>>
        ELSE \E salt \in Salts :
               LET user == AuthUser("", username, email, HashPassword(password, salt),
                                    rs, TRUE)
                   store == userCreator(users, user)
               IN  /\ users' = store
                   /\ last' = CallFrom("AuthService.Register",
                                       <<username, email, password, rs>>, NoError,
                                       JmGenerateTokenPair(cfg, store[username], now),
                                       users)
                   /\ UNCHANGED <<rbacVars, jwtVars, rlVars>>

AuthServiceChangePassword(userID, oldPassword, newPassword) ==
    LET found == userProvider(users, userID)
        weak == ValidatePasswordStrength(newPassword)
        err == IF found.err # NoError THEN Wrap("user not found", found.err)
               ELSE IF ~CheckPassword(oldPassword, found.user.Password)
               THEN <<"invalid old password">>
               ELSE IF weak # NoError
               THEN Wrap("new password validation failed", weak)
               ELSE NoError
    IN  /\ last' = CallFrom("AuthService.ChangePassword",
                            <<userID, oldPassword, newPassword>>, err, <<>>, users)
        /\ IF err # NoError
           THEN UNCHANGED users
           ELSE \E salt \in Salts :
                  users' = userUpdater(users,
                               [found.user EXCEPT
                                    !.Password = HashPassword(newPassword, salt)])
        /\ UNCHANGED <<rbacVars, jwtVars, rlVars>>

MaxInt == 2^(IntBits - 1) - 1

\* the value of an int expression after two's-complement wrap-around
WrapInt(x) == ((x + 2^(IntBits - 1)) % 2^IntBits) - 2^(IntBits - 1)

\* int(elapsed.Seconds()) of a non-negative duration given in ticks
WholeSeconds(d) == d \div TicksPerSecond

Seconds(n) == n * TicksPerSecond

NoBucket == [kind |-> "none"]

NoWindow == [kind |-> "none"]

NoHistory == [born |-> 0, calls |-> <<>>]

\* ------------------------------------------------------------------------
\* tokenBucket
\* ------------------------------------------------------------------------
newTokenBucket(capacity, rate, t) ==
    [tokens |-> capacity, capacity |-> capacity, rate |-> rate, lastRefill |-> t]

\* mutant: a started second counts as a whole one
refillRoundingUp(b, t) ==
    LET started == (t - b.lastRefill + TicksPerSecond - 1) \div TicksPerSecond
        tokensToAdd == WrapInt(started * b.rate)
        sum == WrapInt(b.tokens + tokensToAdd)
    IN  IF tokensToAdd > 0
        THEN [b EXCEPT !.tokens = IF sum > b.capacity THEN b.capacity ELSE sum,
                       !.lastRefill = t]
        ELSE b

\* the bucket after the refill of consume at time t
refill(b, t) ==
    LET tokensToAdd == WrapInt(WholeSeconds(t - b.lastRefill) * b.rate)
        sum == WrapInt(b.tokens + tokensToAdd)
    IN  IF tokensToAdd > 0
        THEN [b EXCEPT !.tokens = IF sum > b.capacity THEN b.capacity ELSE sum,
                       !.lastRefill = t]
        ELSE b

\* mutant: the token is taken whether or not one is there
consumeUnchecked(b, t) ==
    [bucket |-> [refill(b, t) EXCEPT !.tokens = WrapInt(@ - 1)], ok |-> TRUE]

\* tokenBucket.consume at time t: [bucket, ok]
consume(b, t) ==
    LET r == refill(b, t)
    IN  IF r.tokens > 0
        THEN [bucket |-> [r EXCEPT !.tokens = @ - 1], ok |-> TRUE]
        ELSE [bucket |-> r, ok |-> FALSE]

\* ------------------------------------------------------------------------
\* slidingWindow
\* ------------------------------------------------------------------------
newSlidingWindow(limit, window) ==
    [requests |-> <<>>, limit |-> limit, window |-> window]

\* mutant: a denied request is recorded as well
allowRecordingAll(w, t) ==
    LET validRequests == SelectSeq(w.requests, LAMBDA reqTime : reqTime > t - w.window)
    IN  [window |-> [w EXCEPT !.requests = Append(validRequests, t)],
         ok |-> ~(Len(validRequests) >= w.limit)]

\* slidingWindow.allow at time t: [window, ok]
allow(w, t) ==
    LET validRequests == SelectSeq(w.requests, LAMBDA reqTime : reqTime > t - w.window)
    IN  IF Len(validRequests) >= w.limit
        THEN [window |-> [w EXCEPT !.requests = validRequests], ok |-> FALSE]
        ELSE [window |-> [w EXCEPT !.requests = Append(validRequests, t)],
              ok |-> TRUE]

\* ------------------------------------------------------------------------
\* Inputs and calls of one token bucket and of one sliding window
\* ------------------------------------------------------------------------
Capacities == {0, 1, 2, MaxInt}

Rates == {0, 1, 2, MaxInt}

BucketClockSteps == {1, Seconds(1), Seconds(2)}

Limits == {0, 1, 2}

\* time.Duration of the window, in ticks
Windows == {Seconds(1), Seconds(2)}

NewTokenBucket(capacity, rate) ==
    /\ tb = NoBucket
    /\ tb' = newTokenBucket(capacity, rate, now)
    /\ hist' = [born |-> now, calls |-> <<>>]
    /\ last' = Call("newTokenBucket", <<capacity, rate>>, FALSE, <<>>)
    /\ UNCHANGED <<rbacVars, authVars, jwtVars, sw, limiterVars>>

Consume ==
    /\ tb # NoBucket
    /\ Len(hist.calls) < MaxCalls
    /\ tb' = consume(tb, now).bucket
    /\ hist' = [hist EXCEPT !.calls = Append(@, [t |-> now, ok |-> consume(tb, now).ok])]
    /\ last' = CallFrom("consume", <<>>, FALSE, consume(tb, now).ok, tb)
    /\ UNCHANGED <<rbacVars, authVars, jwtVars, sw, limiterVars>>

NewSlidingWindow(limit, window) ==
    /\ sw = NoWindow
    /\ sw' = newSlidingWindow(limit, window)
    /\ hist' = [born |-> now, calls |-> <<>>]
    /\ last' = Call("newSlidingWindow", <<limit, window>>, FALSE, <<>>)
    /\ UNCHANGED <<rbacVars, authVars, jwtVars, tb, limiterVars>>

Allow ==
    /\ sw # NoWindow
    /\ Len(hist.calls) < MaxCalls
    /\ sw' = allow(sw, now).window
    /\ hist' = [hist EXCEPT !.calls = Append(@, [t |-> now, ok |-> allow(sw, now).ok])]
    /\ last' = CallFrom("allow", <<>>, FALSE, allow(sw, now).ok, sw)
    /\ UNCHANGED <<rbacVars, authVars, jwtVars, tb, limiterVars>>

\* ------------------------------------------------------------------------
\* rateLimiter: the registry, its goroutines and the cleanup goroutine
\* ------------------------------------------------------------------------
Minutes(n) == Seconds(n * SecondsPerMinute)

Keys == {"a"}

\* goroutines serving requests
Procs == {"g1", "g2"}

NoHolder == "free"

NoLimiter == [kind |-> "none"]

Idle == [pc |-> "idle"]

NoSweeper == [pc |-> "off", pending |-> FALSE, start |-> 0, now |-> 0]

NoLedger == [calls |-> 0, seen |-> EmptyMap, tokens |-> EmptyMap]

RateLimiterConfig(rate, burst, duration) ==
    [Rate |-> rate, Burst |-> burst, Duration |-> duration]

LimiterConfigs == { RateLimiterConfig(1, 1, Minutes(1)) }

\* the period of the sweep's ticker
TickerSteps == {Minutes(1)}

LimiterClockSteps == {Seconds(1), Minutes(IdleMinutes)}

newRateLimiter(config) ==
    [buckets |-> EmptyMap, windows |-> EmptyMap, config |-> config,
     mutex |-> NoHolder]

\* mutant: Lock returns at once whoever holds the mutex
UnlockedAlways(mutex) == TRUE

\* sync.Mutex / sync.RWMutex: Lock returns when nobody holds the mutex
Unlocked(mutex) == mutex = NoHolder

\* the address of a new object
Alloc(h) == CHOOSE a \in 1..(Cardinality(DOMAIN h) + 1) :
                a \notin DOMAIN h /\ \A b \in 1..(a - 1) : b \in DOMAIN h

\* the map of this call: rl.buckets for allow, rl.windows for allowSliding
Registry(r, op) == IF op = "allow" THEN r.buckets ELSE r.windows

\* the addresses the registry and the goroutines point to
Reachable(r, ps) ==
    { r.buckets[k] : k \in DOMAIN r.buckets }
        \cup { r.windows[k] : k \in DOMAIN r.windows }
        \cup { ps[p].obj : p \in { q \in DOMAIN ps : ps[q].pc \in {"entryLock", "check", "return"} } }

\* a map without the entries of unreachable objects (garbage collection)
Collect(m, r, ps) == [a \in DOMAIN m \cap Reachable(r, ps) |-> m[a]]

\* RateLimit / RateLimitWithSliding: newRateLimiter, then cleanup() starts the
\* ticker and the goroutine
RateLimit(config) ==
    /\ rl = NoLimiter
    /\ rl' = newRateLimiter(config)
    /\ sweeper' = [pc |-> "wait", pending |-> FALSE, start |-> now, now |-> 0]
    /\ last' = Call("RateLimit", <<config>>, FALSE, <<>>)
    /\ UNCHANGED <<rbacVars, authVars, jwtVars, tb, sw, hist, heap, procs, ledger>>

\* time passes; the ticker sends on ticker.C, a channel of capacity 1, at every
\* whole minute since its start, and a tick that finds the channel full is
\* dropped
Elapse(d) ==
    /\ advances < MaxAdvances
    /\ now' = now + d
    /\ advances' = advances + 1
    /\ sweeper' =
          IF sweeper.pc # "off"
             /\ (now + d - sweeper.start) \div Minutes(1)
                    > (now - sweeper.start) \div Minutes(1)
          THEN [sweeper EXCEPT !.pending = TRUE]
          ELSE sweeper
    /\ last' = Call("Advance", <<d>>, NoError, <<>>)
    /\ UNCHANGED <<rbacVars, authVars, held, tb, sw, hist, rl, heap, procs, ledger>>

\* a request handler calls limiter.allow(key) or limiter.allowSliding(key)
RateLimiterCall(p, op, key) ==
    /\ rl # NoLimiter
    /\ procs[p].pc = "idle"
    /\ ledger.calls < MaxChecks
    /\ procs' = [procs EXCEPT ![p] = [pc |-> "lock", op |-> op, key |-> key]]
    /\ ledger' = [ledger EXCEPT !.calls = @ + 1]
    /\ UNCHANGED <<rbacVars, authVars, jwtVars, last, tb, sw, hist, rl, heap, sweeper>>

\* rl.mutex.Lock()
RateLimiterLock(p) ==
    /\ procs[p].pc = "lock"
    /\ Unlocked(rl.mutex)
    /\ rl' = [rl EXCEPT !.mutex = p]
    /\ procs' = [procs EXCEPT ![p].pc = "lookup"]
    /\ UNCHANGED <<rbacVars, authVars, jwtVars, last, tb, sw, hist, heap, sweeper, ledger>>

\* bucket, exists := rl.buckets[key]  (window, exists := rl.windows[key])
RateLimiterLookup(p) ==
    LET m == Registry(rl, procs[p].op)
        key == procs[p].key
    IN  /\ procs[p].pc = "lookup"
        /\ procs' = [procs EXCEPT ![p] =
               IF HasKey(m, key)
               THEN [pc |-> "entryLock", op |-> procs[p].op, key |-> key,
                     obj |-> m[key]]
               ELSE [pc |-> "create", op |-> procs[p].op, key |-> key]]
        /\ UNCHANGED <<rbacVars, authVars, jwtVars, last, tb, sw, hist, rl, heap, sweeper,
                       ledger>>

\* if !exists: the entry is made from the config and stored under the key
RateLimiterCreate(p) ==
    LET a == Alloc(heap)
        key == procs[p].key
        made == IF procs[p].op = "allow"
                THEN [kind |-> "bucket",
                      val |-> newTokenBucket(rl.config.Burst, rl.config.Rate, now),
                      mutex |-> NoHolder]
                ELSE [kind |-> "window",
                      val |-> newSlidingWindow(rl.config.Rate, rl.config.Duration),
                      mutex |-> NoHolder]
        r2 == IF procs[p].op = "allow"
              THEN [rl EXCEPT !.buckets = MapPut(@, key, a)]
              ELSE [rl EXCEPT !.windows = MapPut(@, key, a)]
        ps2 == [procs EXCEPT ![p] = [pc |-> "entryLock", op |-> procs[p].op,
                                     key |-> key, obj |-> a]]
    IN  /\ procs[p].pc = "create"
        /\ rl' = r2
        /\ procs' = ps2
        /\ heap' = Collect(MapPut(heap, a, made), r2, ps2)
        /\ ledger' = [ledger EXCEPT
               !.tokens = Collect(IF procs[p].op = "allow"
                                  THEN MapPut(@, a, [avail |-> made.val.tokens,
                                                     granted |-> 0])
                                  ELSE @, r2, ps2)]
        /\ UNCHANGED <<rbacVars, authVars, jwtVars, last, tb, sw, hist, sweeper>>

\* tb.mutex.Lock() of consume, sw.mutex.Lock() of allow
EntryLock(p) ==
    /\ procs[p].pc = "entryLock"
    /\ Unlocked(heap[procs[p].obj].mutex)
    /\ heap' = [heap EXCEPT ![procs[p].obj].mutex = p]
    /\ procs' = [procs EXCEPT ![p].pc = "check"]
    /\ UNCHANGED <<rbacVars, authVars, jwtVars, last, tb, sw, hist, rl, sweeper, ledger>>

\* the body of consume or of allow, and the deferred Unlock of the entry
EntryCheck(p) ==
    LET a == procs[p].obj
        old == heap[a].val
        isBucket == heap[a].kind = "bucket"
        ok == IF isBucket THEN consume(old, now).ok ELSE allow(old, now).ok
        new == IF isBucket THEN consume(old, now).bucket ELSE allow(old, now).window
        refilled == isBucket /\ new.lastRefill # old.lastRefill
    IN  /\ procs[p].pc = "check"
        /\ heap' = [heap EXCEPT ![a] = [kind |-> heap[a].kind, val |-> new,
                                        mutex |-> NoHolder]]
        /\ procs' = [procs EXCEPT ![p] = [pc |-> "return", op |-> procs[p].op,
                                          key |-> procs[p].key, obj |-> a,
                                          ok |-> ok]]
        /\ ledger' = [ledger EXCEPT
               !.seen = MapPut(@, <<procs[p].op, procs[p].key>>, now),
               !.tokens = IF ~isBucket \/ a \notin DOMAIN @ THEN @
                          ELSE [@ EXCEPT ![a] =
                                  [avail |-> IF refilled THEN refill(old, now).tokens
                                             ELSE @.avail,
                                   granted |-> (IF refilled THEN 0 ELSE @.granted)
                                               + (IF ok THEN 1 ELSE 0)]]]
        /\ UNCHANGED <<rbacVars, authVars, jwtVars, last, tb, sw, hist, rl, sweeper>>

\* mutant: the call returns without the deferred rl.mutex.Unlock()
RateLimiterReturnLocked(p) ==
    LET ps2 == [procs EXCEPT ![p] = Idle]
    IN  /\ procs[p].pc = "return"
        /\ procs' = ps2
        /\ heap' = Collect(heap, rl, ps2)
        /\ ledger' = [ledger EXCEPT !.tokens = Collect(@, rl, ps2)]
        /\ last' = Call(procs[p].op, <<p, procs[p].key>>, FALSE, procs[p].ok)
        /\ UNCHANGED <<rbacVars, authVars, jwtVars, tb, sw, hist, rl, sweeper>>

\* the deferred rl.mutex.Unlock() and the return of the decision
RateLimiterReturn(p) ==
    LET r2 == [rl EXCEPT !.mutex = IF @ = p THEN NoHolder ELSE @]
        ps2 == [procs EXCEPT ![p] = Idle]
    IN  /\ procs[p].pc = "return"
        /\ rl' = r2
        /\ procs' = ps2
        /\ heap' = Collect(heap, r2, ps2)
        /\ ledger' = [ledger EXCEPT !.tokens = Collect(@, r2, ps2)]
        /\ last' = Call(procs[p].op, <<p, procs[p].key>>, FALSE, procs[p].ok)
        /\ UNCHANGED <<rbacVars, authVars, jwtVars, tb, sw, hist, sweeper>>

\* for range ticker.C: the goroutine receives a tick
CleanupTick ==
    /\ sweeper.pc = "wait"
    /\ sweeper.pending
    /\ sweeper' = [sweeper EXCEPT !.pc = "lock", !.pending = FALSE]
    /\ UNCHANGED <<rbacVars, authVars, jwtVars, last, tb, sw, hist, rl, heap, procs, ledger>>

\* rl.mutex.Lock(); now := time.Now()
CleanupLock ==
    /\ sweeper.pc = "lock"
    /\ Unlocked(rl.mutex)
    /\ rl' = [rl EXCEPT !.mutex = "cleanup"]
    /\ sweeper' = [sweeper EXCEPT !.pc = "buckets", !.now = now]
    /\ UNCHANGED <<rbacVars, authVars, jwtVars, last, tb, sw, hist, heap, procs, ledger>>

\* the loop over rl.buckets
CleanupBuckets ==
    LET stale == { k \in DOMAIN rl.buckets :
                     sweeper.now - heap[rl.buckets[k]].val.lastRefill
                        > Minutes(IdleMinutes) }
        r2 == [rl EXCEPT !.buckets = [k \in DOMAIN @ \ stale |-> @[k]]]
    IN  /\ sweeper.pc = "buckets"
        /\ rl' = r2
        /\ heap' = Collect(heap, r2, procs)
        /\ ledger' = [ledger EXCEPT !.tokens = Collect(@, r2, procs)]
        /\ sweeper' = [sweeper EXCEPT !.pc = "windows"]
        /\ UNCHANGED <<rbacVars, authVars, jwtVars, last, tb, sw, hist, procs>>

\* the loop over rl.windows; each window's mutex is locked around the test
CleanupWindows ==
    LET empty == { k \in DOMAIN rl.windows :
                     Len(heap[rl.windows[k]].val.requests) = 0 }
        r2 == [rl EXCEPT !.windows = [k \in DOMAIN @ \ empty |-> @[k]]]
    IN  /\ sweeper.pc = "windows"
        /\ \A k \in DOMAIN rl.windows : Unlocked(heap[rl.windows[k]].mutex)
        /\ rl' = r2
        /\ heap' = Collect(heap, r2, procs)
        /\ sweeper' = [sweeper EXCEPT !.pc = "unlock"]
        /\ UNCHANGED <<rbacVars, authVars, jwtVars, last, tb, sw, hist, procs, ledger>>

\* rl.mutex.Unlock(); the goroutine waits for the next tick
CleanupUnlock ==
    /\ sweeper.pc = "unlock"
    /\ rl' = [rl EXCEPT !.mutex = IF @ = "cleanup" THEN NoHolder ELSE @]
    /\ sweeper' = [sweeper EXCEPT !.pc = "wait"]
    /\ last' = Call("cleanup", <<>>, FALSE, sweeper.now)
    /\ UNCHANGED <<rbacVars, authVars, jwtVars, tb, sw, hist, heap, procs, ledger>>

\* ------------------------------------------------------------------------
\* Specification of the RBAC engine
\* ------------------------------------------------------------------------
Init ==
    /\ permissions = EmptyMap
    /\ roles = EmptyMap
    /\ userRoles = EmptyMap
    /\ last = Call("New", <<>>, FALSE, <<>>)
    /\ now = 0
    /\ held = NoCredential
    /\ advances = 0
    /\ users = EmptyMap
    /\ tb = NoBucket
    /\ sw = NoWindow
    /\ hist = NoHistory
    /\ rl = NoLimiter
    /\ heap = EmptyMap
    /\ procs = [p \in Procs |-> Idle]
    /\ sweeper = NoSweeper
    /\ ledger = NoLedger

Next ==
    \/ \E p \in PermissionInputs : AddPermission(p)
    \/ \E id \in PermIds : RemovePermission(id)
    \/ \E r \in RoleInputs : AddRole(r)
    \/ \E id \in RoleIds : RemoveRole(id)
    \/ \E r \in RoleIds, p \in PermIds : AddPermissionToRole(r, p)
    \/ \E r \in RoleIds, p \in PermIds : RemovePermissionFromRole(r, p)
    \/ \E u \in Users, r \in RoleIds : AssignRoleToUser(u, r)
    \/ \E u \in Users, r \in RoleIds : RemoveRoleFromUser(u, r)

Spec == Init /\ [][Next]_vars

\* ------------------------------------------------------------------------
\* Specification of the permission registry: permissions registered again
\* under the same id, attached to a role and looked up
\* ------------------------------------------------------------------------
NextPerm ==
    \/ \E p \in PermissionVariantInputs : AddPermission(p)
    \/ \E id \in PermIds : RemovePermission(id)
    \/ \E id \in PermIds : GetPermissionCall(id)
    \/ \E r \in BareRoleInputs : AddRole(r)
    \/ \E r \in RoleIds, p \in PermIds : AddPermissionToRole(r, p)
    \/ \E r \in RoleIds, p \in PermIds : RemovePermissionFromRole(r, p)
    \/ \E u \in QueryUsers, r \in RoleIds : AssignRoleToUser(u, r)
    \/ \E u \in QueryUsers, res \in VariantResources, a \in VariantActions :
           HasResourcePermissionCall(u, res, a)

SpecPerm == Init /\ [][NextPerm]_vars

\* ------------------------------------------------------------------------
\* Specification of the RBAC queries: roles are registered as literals and
\* assigned, and the read-only calls are applied to every state so built
\* ------------------------------------------------------------------------
NextQuery ==
    \/ \E r \in QueryRoleInputs : AddRole(r)
    \/ \E id \in RoleIds : RemoveRole(id)
    \/ \E u \in QueryUsers, r \in RoleIds : AssignRoleToUser(u, r)
    \/ \E u \in QueryUsers, r \in RoleIds : RemoveRoleFromUser(u, r)
    \/ \E u \in QueryUsers : GetUserPermissionsCall(u)
    \/ \E u \in QueryUsers, res \in QueryResources, act \in QueryActions :
           HasResourcePermissionCall(u, res, act)
    \/ \E u \in QueryUsers, pol \in PolicyInputs : EvaluatePolicyCall(u, pol)

SpecQuery == Init /\ [][NextQuery]_vars

\* ------------------------------------------------------------------------
\* Specification of the token managers
\* ------------------------------------------------------------------------
NextJWT ==
    \/ \E d \in ClockSteps : Advance(d)
    \/ \E cfg \in Configs, u \in ManagerUsers : ManagerGenerateToken(cfg, u)
    \/ \E cfg \in Configs, u \in ManagerUsers : ManagerGenerateTokenPair(cfg, u)
    \/ \E cfg \in ValidatorConfigs, tok \in TokensOf(held) :
           ManagerValidateToken(cfg, tok)
    \/ \E cfg \in ValidatorConfigs, tok \in TokensOf(held),
             rr \in RequiredRoleInputs : ManagerValidateRole(cfg, tok, rr)
    \/ \E cfg \in Configs, tok \in TokensOf(held) : ManagerGetTokenClaims(cfg, tok)
    \/ \E cfg \in Configs, tok \in TokensOf(held) : ManagerRefreshToken(cfg, tok)
    \/ \E cfg \in Configs, user \in JWTUsers : JWTManagerGenerateToken(cfg, user)
    \/ \E cfg \in Configs, user \in JWTUsers : JWTManagerGenerateTokenPair(cfg, user)
    \/ \E cfg \in ValidatorConfigs, tok \in TokensOf(held) :
           JWTManagerValidateToken(cfg, tok)
    \/ \E cfg \in Configs, tok \in TokensOf(held) : JWTManagerRefreshToken(cfg, tok)

SpecJWT == Init /\ [][NextJWT]_vars

\* ------------------------------------------------------------------------
\* Specification of the Authorization header: headers are handed to
\* ExtractTokenFromHeader one after the other
\* ------------------------------------------------------------------------
NextHeader ==
    \E h \in HeaderInputs : JWTManagerExtractTokenFromHeader(h)

SpecHeader == Init /\ [][NextHeader]_vars

\* ------------------------------------------------------------------------
\* Specification of the authentication service over the store of
\* TestAuthService
\* ------------------------------------------------------------------------
NextAuth ==
    \/ \E cfg \in AuthConfigs, u \in AuthUsernames, pw \in AuthPasswords :
           AuthServiceRegister(cfg, u, "test@example.com", pw, <<"user">>)
    \/ \E cfg \in AuthConfigs, u \in AuthUsernames, pw \in AuthPasswords :
           AuthServiceLogin(cfg, u, pw)
    \/ \E id \in AuthUserIDs, old \in AuthPasswords, new \in AuthPasswords :
           AuthServiceChangePassword(id, old, new)

SpecAuth == Init /\ [][NextAuth]_vars

\* ------------------------------------------------------------------------
\* Specification of one token bucket: it is made, then checked as time passes
\* ------------------------------------------------------------------------
NextBucket ==
    \/ \E c \in Capacities, r \in Rates : NewTokenBucket(c, r)
    \/ Consume
    \/ \E d \in BucketClockSteps : Advance(d)

SpecBucket == Init /\ [][NextBucket]_vars

\* ------------------------------------------------------------------------
\* Specification of one sliding window
\* ------------------------------------------------------------------------
NextWindow ==
    \/ \E l \in Limits, w \in Windows : NewSlidingWindow(l, w)
    \/ Allow
    \/ \E d \in BucketClockSteps : Advance(d)

SpecWindow == Init /\ [][NextWindow]_vars

\* ------------------------------------------------------------------------
\* Specification of the rate limiter: goroutines inside allow and
\* allowSliding, and the cleanup goroutine, interleaved step by step
\* ------------------------------------------------------------------------
NextLimiter ==
    \/ \E cfg \in LimiterConfigs : RateLimit(cfg)
    \/ \E d \in LimiterClockSteps : Elapse(d)
    \/ \E p \in Procs, k \in Keys : RateLimiterCall(p, "allow", k)
    \/ \E p \in Procs, k \in Keys : RateLimiterCall(p, "allowSliding", k)
    \/ \E p \in Procs : RateLimiterLock(p)
    \/ \E p \in Procs : RateLimiterLookup(p)
    \/ \E p \in Procs : RateLimiterCreate(p)
    \/ \E p \in Procs : EntryLock(p)
    \/ \E p \in Procs : EntryCheck(p)
    \/ \E p \in Procs : RateLimiterReturn(p)
    \/ CleanupTick
    \/ CleanupLock
    \/ CleanupBuckets
    \/ CleanupWindows
    \/ CleanupUnlock

SpecLimiter == Init /\ [][NextLimiter]_vars

\* the steps of goroutine p between its rl.mutex.Lock() and its return
RateLimiterBody(p) ==
    \/ RateLimiterLookup(p)
    \/ RateLimiterCreate(p)
    \/ EntryLock(p)
    \/ EntryCheck(p)
    \/ RateLimiterReturn(p)

\* the steps of the cleanup goroutine after its rl.mutex.Lock()
CleanupBody ==
    \/ CleanupBuckets
    \/ CleanupWindows
    \/ CleanupUnlock

\* the limiter with the clock moving from one tick of the sweep's ticker to
\* the next
NextLimiterFair ==
    \/ \E cfg \in LimiterConfigs : RateLimit(cfg)
    \/ \E d \in TickerSteps : Elapse(d)
    \/ \E p \in Procs, k \in Keys : RateLimiterCall(p, "allow", k)
    \/ \E p \in Procs, k \in Keys : RateLimiterCall(p, "allowSliding", k)
    \/ \E p \in Procs : RateLimiterLock(p)
    \/ \E p \in Procs : RateLimiterBody(p)
    \/ CleanupTick
    \/ CleanupLock
    \/ CleanupBody

\* Scheduling: a goroutine that can run is run (weak fairness of the steps
\* inside a call and inside the sweep), and a goroutine blocked in
\* rl.mutex.Lock() gets the mutex if it is free again and again, as
\* sync.Mutex hands a starving waiter the mutex (strong fairness of Lock).
\* Requests arrive and time passes at no particular pace.
SpecLimiterFair ==
    /\ Init
    /\ [][NextLimiterFair]_vars
    /\ \A p \in Procs : SF_vars(RateLimiterLock(p)) /\ WF_vars(RateLimiterBody(p))
    /\ SF_vars(CleanupLock)
    /\ WF_vars(CleanupBody)

\* ========================================================================
\* Properties of the RBAC engine
\* ========================================================================
IdsOf(perms) == {perms[i].ID : i \in 1..Len(perms)}

DistinctIds(perms) ==
    \A i, j \in 1..Len(perms) : perms[i].ID = perms[j].ID => i = j

Without(s, x) == SelectSeq(s, LAMBDA y : y # x)

\* C1: after RemovePermission(id) returns without error no role holds a
\* permission with that id in its Permissions list.
C1_RemovePermissionCascades ==
    (last.op = "RemovePermission" /\ ~last.err) =>
        \A r \in DOMAIN roles : last.args[1] \notin IdsOf(roles[r].Permissions)

\* C2: no role's Permissions list holds two entries with the same permission id.
C2_NoDuplicatePermissionIds ==
    \A r \in DOMAIN roles : DistinctIds(roles[r].Permissions)

\* C3: after RemoveRole(roleId) returns without error no user has roleId
\* (HasRole is false, GetUserRoles does not contain it), and every user's other
\* role assignments are as they were, in the same order.
C3_RemoveRoleCascades ==
    (last.op = "RemoveRole" /\ ~last.err) =>
        /\ DOMAIN userRoles = DOMAIN last.pre
        /\ \A u \in Users :
              /\ ~HasRole(u, last.args[1])
              /\ last.args[1] \notin Range(GetUserRoles(u))
              /\ GetUserRoles(u) = Without(SliceAt(last.pre, u), last.args[1])

\* both users held the removed role, and one of them keeps another role
C3_Witness ==
    /\ last.op = "RemoveRole" /\ ~last.err
    /\ \A u \in Users : last.args[1] \in Range(SliceAt(last.pre, u))
    /\ \E u \in Users : GetUserRoles(u) # <<>>

\* C4: HasResourcePermission(user, resource, action) is true exactly when some
\* permission of GetUserPermissions(user) matches (resource, action) exactly,
\* or has resource "*", or has action "*".
C4_HasResourcePermissionIff ==
    last.op = "HasResourcePermission" =>
        LET owned == Range(GetUserPermissions(last.args[1]))
        IN  last.ret =
              \/ \E p \in owned : p.Resource = last.args[2] /\ p.Action = last.args[3]
              \/ \E p \in owned : p.Resource = "*"
              \/ \E p \in owned : p.Action = "*"

\* a user holding only {user,read} and {user,write} is denied (admin,read)
C4_Witness ==
    /\ last.op = "HasResourcePermission"
    /\ last.args[2] = "admin" /\ last.args[3] = "read"
    /\ {<<p.Resource, p.Action>> : p \in Range(GetUserPermissions(last.args[1]))}
          = {<<"user", "read">>, <<"user", "write">>}
    /\ last.ret = FALSE

\* a grant that rests on an action wildcard alone
C4_WitnessWildcard ==
    /\ last.op = "HasResourcePermission"
    /\ last.args[2] = "admin" /\ last.args[3] = "read"
    /\ \A p \in Range(GetUserPermissions(last.args[1])) :
          p.Resource = "user" /\ p.Action = "*"
    /\ last.ret = TRUE

\* C5: EvaluatePolicy(user, policy) is true exactly when (Roles is empty or the
\* user holds one of them) and the user holds every listed permission id and
\* HasResourcePermission holds for every listed action; the call changes no
\* RBAC state.
C5_EvaluatePolicyIff ==
    [][ last'.op = "EvaluatePolicy" =>
          LET u == last'.args[1]
              pol == last'.args[2]
          IN  /\ last'.ret =
                    /\ (pol.Roles = <<>> \/ \E r \in Range(pol.Roles) : HasRole(u, r))
                    /\ \A p \in Range(pol.Permissions) : HasPermission(u, p)
                    /\ \A a \in Range(pol.Actions) :
                           HasResourcePermission(u, pol.Resource, a)
              /\ UNCHANGED rbacVars ]_vars

\* a grant in which all three dimensions are non-empty
C5_Witness ==
    /\ last.op = "EvaluatePolicy"
    /\ last.args[2].Roles # <<>>
    /\ last.args[2].Permissions # <<>>
    /\ last.args[2].Actions # <<>>
    /\ last.ret = TRUE

\* a denial that rests on the permission dimension alone
C5_WitnessDeny ==
    /\ last.op = "EvaluatePolicy"
    /\ last.ret = FALSE
    /\ HasAnyRole(last.args[1], last.args[2].Roles)
    /\ \A a \in Range(last.args[2].Actions) :
           HasResourcePermission(last.args[1], last.args[2].Resource, a)

\* C6: GetUserPermissions(user) holds exactly one entry per permission id that
\* appears in the Permissions list of a role assigned to the user, each entry
\* taken from such a list, and nothing else.
C6_GetUserPermissionsIsUnion ==
    last.op = "GetUserPermissions" =>
        LET assigned == Range(GetUserRoles(last.args[1])) \cap DOMAIN roles
        IN  /\ DistinctIds(last.ret)
            /\ IdsOf(last.ret) = UNION {IdsOf(roles[r].Permissions) : r \in assigned}
            /\ Range(last.ret) \subseteq
                   UNION {Range(roles[r].Permissions) : r \in assigned}
            /\ Range(GetUserRoles(last.args[1])) \subseteq DOMAIN roles

\* two roles that share p2: {p1,p2} and {p2,p3} give exactly {p1,p2,p3}
C6_Witness ==
    /\ last.op = "GetUserPermissions"
    /\ Len(GetUserRoles(last.args[1])) = 2
    /\ \A r \in Range(GetUserRoles(last.args[1])) :
           r \in DOMAIN roles /\ "p2" \in IdsOf(roles[r].Permissions)
    /\ Len(last.ret) = 3
    /\ IdsOf(last.ret) = {"p1", "p2", "p3"}

\* C19: AddPermissionToRole returns an error when the role or the permission
\* is not registered, and a second call with the same arguments right after a
\* successful one returns no error and leaves the roles, and so the role's
\* Permissions list, as the first call left them.
C19_AddPermissionToRoleIdempotent ==
    [][ \A r \in RoleIds, p \in PermIds :
          (last'.op = "AddPermissionToRole" /\ last'.args = <<r, p>>) =>
             /\ (~HasKey(roles, r) \/ ~HasKey(permissions, p))
                   => (last'.err /\ roles' = roles)
             /\ ( /\ last.op = "AddPermissionToRole"
                  /\ last.args = <<r, p>>
                  /\ ~last.err )
                   => (~last'.err /\ roles' = roles) ]_vars

\* the state a successful AddPermissionToRole leaves, after the first call and
\* after every repetition of it: the permission is in the role's list once
C19_Witness ==
    /\ last.op = "AddPermissionToRole"
    /\ ~last.err
    /\ Len(SelectSeq(roles[last.args[1]].Permissions,
                     LAMBDA q : q.ID = last.args[2])) = 1
    /\ Len(roles[last.args[1]].Permissions) = 2

\* an AddPermissionToRole that names an unregistered permission
C19_WitnessError ==
    /\ last.op = "AddPermissionToRole"
    /\ last.err
    /\ HasKey(roles, last.args[1])
    /\ ~HasKey(permissions, last.args[2])

\* C20: AssignRoleToUser fails when the role is not registered, and a second
\* AssignRoleToUser or RemoveRoleFromUser with the same arguments right after
\* the first returns what the first returned and leaves userRoles as the
\* first left it.
C20_AssignRemoveIdempotent ==
    [][ \A u \in Users, r \in RoleIds :
          /\ (last'.op = "AssignRoleToUser" /\ last'.args = <<u, r>>) =>
                 /\ ~HasKey(roles, r) => (last'.err /\ userRoles' = userRoles)
                 /\ (last.op = "AssignRoleToUser" /\ last.args = <<u, r>>)
                       => (last'.err = last.err /\ userRoles' = userRoles)
          /\ ( /\ last'.op = "RemoveRoleFromUser" /\ last'.args = <<u, r>>
               /\ last.op = "RemoveRoleFromUser" /\ last.args = <<u, r>> )
                 => (last'.err = last.err /\ userRoles' = userRoles) ]_vars

\* the state a RemoveRoleFromUser that took a role away leaves, after the first
\* call and after every repetition: the entry is kept, without the role
C20_Witness ==
    /\ last.op = "RemoveRoleFromUser"
    /\ ~last.err
    /\ HasKey(roles, last.args[2])
    /\ HasKey(userRoles, last.args[1])
    /\ userRoles[last.args[1]] = <<>>

\* the state a successful AssignRoleToUser leaves
C20_WitnessAssign ==
    /\ last.op = "AssignRoleToUser"
    /\ ~last.err
    /\ Len(userRoles[last.args[1]]) = 2
    /\ HasRole(last.args[1], last.args[2])

\* C21: no user's role-id list contains the same role id twice, in every state
\* reachable through AssignRoleToUser, RemoveRoleFromUser, AddRole and
\* RemoveRole.
C21_NoDuplicateUserRoles ==
    \A u \in DOMAIN userRoles :
        \A i, j \in 1..Len(userRoles[u]) :
            userRoles[u][i] = userRoles[u][j] => i = j

\* a role is assigned again to a user who holds it in front of another role:
\* the call returns nil and the slice is as it was
C21_Witness ==
    /\ last.op = "AssignRoleToUser"
    /\ ~last.err
    /\ last.args = <<"u1", "r2">>
    /\ userRoles["u1"] = <<"r2", "r1">>

\* C27: every permission id in a role's Permissions list is registered in the
\* permission registry, so HasPermission(u, id) is never true for an id that
\* GetPermission rejects.
C27_RolePermissionsRegistered ==
    /\ \A r \in DOMAIN roles : IdsOf(roles[r].Permissions) \subseteq DOMAIN permissions
    /\ \A u \in Users, id \in PermIds :
           HasPermission(u, id) => HasKey(permissions, id)

\* C28: an RBAC operation that returns an error leaves the permission
\* registry, the role registry with every role's permission list, and the
\* user-role assignments as they were before the call.
C28_ErrorLeavesStateUnchanged ==
    [][ ( /\ last'.op \in { "AddPermission", "AddRole", "RemovePermission",
                             "RemoveRole", "AddPermissionToRole",
                             "RemovePermissionFromRole", "AssignRoleToUser",
                             "RemoveRoleFromUser" }
          /\ last'.err )
        => /\ permissions' = permissions
           /\ roles' = roles
           /\ userRoles' = userRoles ]_vars

\* a rejected AddPermission (empty name under a registered id) in a state with
\* permissions, roles with permissions and assignments: the registered value
\* is still the one with the name
C28_Witness ==
    /\ last.op = "AddPermission"
    /\ last.err
    /\ last.args[1].ID = "p1" /\ last.args[1].Name = ""
    /\ HasKey(permissions, "p1") /\ permissions["p1"].Name # ""
    /\ \E r \in DOMAIN roles : roles[r].Permissions # <<>>
    /\ \E u \in DOMAIN userRoles : userRoles[u] # <<>>

\* a rejected AssignRoleToUser of an unregistered role to a user with roles
C28_WitnessAssign ==
    /\ last.op = "AssignRoleToUser"
    /\ last.err
    /\ ~HasKey(roles, last.args[2])
    /\ HasKey(userRoles, last.args[1]) /\ userRoles[last.args[1]] # <<>>

\* C22: AddPermission with an empty id or an empty name returns an error and
\* leaves the permission registry as it was; with an id and a name it returns
\* nil and GetPermission of the id right afterwards returns the permission
\* just added, whatever was registered under the id before; GetPermission
\* returns what the registry holds, and it returns an error for an id that
\* was never added (none is registered at the start and only AddPermission
\* of the id registers it) and for an id that has been removed.
C22_AddThenGetPermission ==
    /\ \A id \in PermIds : GetPermission(id).err
    /\ [][ /\ \A p \in PermissionVariantInputs :
                 (last'.op = "AddPermission" /\ last'.args = <<p>>) =>
                     IF p.ID = "" \/ p.Name = ""
                     THEN last'.err /\ permissions' = permissions
                     ELSE /\ ~last'.err
                          /\ GetPermission(p.ID)' = [err |-> FALSE, permission |-> p]
            /\ \A id \in PermIds :
                 /\ (last'.op = "GetPermission" /\ last'.args = <<id>>) =>
                        /\ last'.err = GetPermission(id).err
                        /\ ~last'.err => last'.ret = GetPermission(id).permission
                 /\ ( /\ GetPermission(id).err
                      /\ ~(last'.op = "AddPermission" /\ ~last'.err
                             /\ last'.args[1].ID = id) )
                    => GetPermission(id)'.err
                 /\ (last'.op = "RemovePermission" /\ last'.args = <<id>> /\ ~last'.err)
                    => GetPermission(id)'.err ]_vars

\* GetPermission returns the second registration of an id
C22_Witness ==
    /\ last.op = "GetPermission"
    /\ ~last.err
    /\ last.ret = Permission("p1", "n", "order", "read")
    /\ \E r \in DOMAIN roles :
           \E i \in 1..Len(roles[r].Permissions) :
               /\ roles[r].Permissions[i].ID = "p1"
               /\ roles[r].Permissions[i] # last.ret

\* GetPermission rejects an id that is not registered while another id and a
\* role are
C22_WitnessRemoved ==
    /\ last.op = "GetPermission"
    /\ last.err
    /\ last.args = <<"p1">>
    /\ HasKey(permissions, "p2")
    /\ HasKey(roles, "r1")

\* C26: a role holds a copy of each attached permission: AddPermission leaves
\* every role's Permissions list, and so HasResourcePermission of every user,
\* as it was; AddPermissionToRole of a permission id the role already lists
\* is a no-op, also when the registered permission has changed since; and
\* AddPermissionToRole of an id the role does not list (never attached, or
\* removed from the role) appends the permission as it is registered now.
C26_RoleHoldsCopy ==
    [][ /\ last'.op = "AddPermission" =>
              /\ roles' = roles
              /\ \A u \in QueryUsers, res \in VariantResources, a \in VariantActions :
                     HasResourcePermission(u, res, a)' = HasResourcePermission(u, res, a)
        /\ \A r \in RoleIds, id \in PermIds :
              (last'.op = "AddPermissionToRole" /\ last'.args = <<r, id>> /\ ~last'.err) =>
                  IF id \in IdsOf(roles[r].Permissions)
                  THEN roles' = roles
                  ELSE roles' = [roles EXCEPT ![r].Permissions =
                                     Append(@, permissions[id])] ]_vars

\* the permission was registered again with another resource or action after
\* it was attached, and a repeated AddPermissionToRole has returned nil: the
\* role still holds the first registration, which is what its user is granted
C26_Witness ==
    /\ last.op = "AddPermissionToRole"
    /\ ~last.err
    /\ last.args = <<"r1", "p1">>
    /\ permissions["p1"] = Permission("p1", "n", "order", "read")
    /\ roles["r1"].Permissions = <<Permission("p1", "n", "user", "read")>>
    /\ HasRole("u1", "r1")
    /\ HasResourcePermission("u1", "user", "read")
    /\ ~HasResourcePermission("u1", "order", "read")

\* the permission was removed from the role and attached again: the role
\* holds the registration of the time of the second attachment
C26_WitnessReattached ==
    /\ last.op = "AddPermissionToRole"
    /\ ~last.err
    /\ last.args = <<"r1", "p1">>
    /\ roles["r1"].Permissions =
           <<Permission("p2", "n", "user", "write"), Permission("p1", "n", "order", "read")>>
    /\ HasRole("u1", "r1")
    /\ HasResourcePermission("u1", "order", "read")

\* ========================================================================
\* Properties of the token managers
\* ========================================================================
\* the instant, in ticks, a token's issued-at second begins
IssuedTick(tok) == tok.claims.IssuedAt * TicksPerSecond

\* (cfg, user) from which Manager.GenerateToken makes this very token
ManagerAccessOrigins(tok) ==
    { o \in Configs \X ManagerUsers :
        tok = MgrGenerateToken(o[1], o[2][1], o[2][2], o[2][3], o[2][4], IssuedTick(tok)) }

JWTManagerAccessOrigins(tok) ==
    { o \in Configs \X JWTUsers : tok = JmGenerateToken(o[1], o[2], IssuedTick(tok)) }

\* C7: Manager.RefreshToken, given a valid access token made by
\* Manager.GenerateToken, returns an error containing "not a refresh token",
\* issues no pair and does not panic.
C7_ManagerRefreshRejectsAccessToken ==
    ( /\ last.op = "Manager.RefreshToken"
      /\ last.pre.kind = "token"
      /\ last.args[2] = last.pre.token
      /\ ManagerAccessOrigins(last.args[2]) # {}
      /\ MgrValidateToken(last.args[1], last.args[2], now).err = NoError )
    => /\ ~last.panic
       /\ Contains(last.err, "not a refresh token")
       /\ last.ret = <<>>
       /\ held = last.pre

\* C8: JWTManager.RefreshToken, given a valid access token made by
\* JWTManager.GenerateToken, fails and returns no new pair.
C8_JWTManagerRefreshRejectsAccessToken ==
    ( /\ last.op = "JWTManager.RefreshToken"
      /\ last.pre.kind = "token"
      /\ last.args[2] = last.pre.token
      /\ JWTManagerAccessOrigins(last.args[2]) # {}
      /\ JmValidateToken(last.args[1], last.args[2], now).err = NoError )
    => /\ last.err # NoError
       /\ last.ret = <<>>
       /\ held = last.pre

\* C9: RefreshToken (of either manager), given the refresh token of a pair,
\* returns a pair whose access token differs from that pair's access token.
C9_RefreshChangesAccessToken ==
    ( /\ last.op \in {"Manager.RefreshToken", "JWTManager.RefreshToken"}
      /\ ~last.panic
      /\ last.err = NoError
      /\ last.pre.kind = "pair"
      /\ last.args[2] = last.pre.pair.RefreshToken )
    => last.ret.AccessToken # last.pre.pair.AccessToken

\* C10: a token generated with ExpireHours = 0 is rejected by ValidateToken of
\* the issuing manager with an expiry error at every instant from its issuance
\* on, while Manager.GetTokenClaims succeeds on it and returns the user id and
\* username it was generated with.
C10_ZeroExpiry ==
    /\ ( /\ last.op = "Manager.ValidateToken"
         /\ \E o \in ManagerAccessOrigins(last.args[2]) :
                o[1].ExpireHours = 0 /\ o[1].Secret = last.args[1].Secret )
       => Contains(last.err, "token is expired")
    /\ ( /\ last.op = "JWTManager.ValidateToken"
         /\ \E o \in JWTManagerAccessOrigins(last.args[2]) :
                o[1].ExpireHours = 0 /\ o[1].Secret = last.args[1].Secret )
       => Contains(last.err, "token is expired")
    /\ ( last.op = "Manager.GetTokenClaims" =>
           \A o \in ManagerAccessOrigins(last.args[2]) :
               (o[1].ExpireHours = 0 /\ o[1].Secret = last.args[1].Secret)
               => /\ last.err = NoError
                  /\ last.ret.UserID = o[2][1]
                  /\ last.ret.Username = o[2][2] )

\* the claims of a zero-expiry token are read some time after its issuance,
\* when ValidateToken rejects it
C10_Witness ==
    /\ last.op = "Manager.GetTokenClaims"
    /\ \E o \in ManagerAccessOrigins(last.args[2]) :
           o[1].ExpireHours = 0 /\ o[1] = last.args[1]
    /\ now > IssuedTick(last.args[2])
    /\ Contains(MgrValidateToken(last.args[1], last.args[2], now).err, "token is expired")
    /\ last.err = NoError
    /\ last.ret.UserID = 123

\* C11: ValidateToken of either manager rejects every correctly signed,
\* unexpired token whose issuer claim differs from the manager's configured
\* issuer.
C11_ValidateTokenRejectsForeignIssuer ==
    ( /\ last.op \in {"Manager.ValidateToken", "JWTManager.ValidateToken"}
      /\ last.args[2].key = last.args[1].Secret
      /\ now < last.args[2].claims.ExpiresAt * TicksPerSecond
      /\ last.args[2].claims.Issuer # last.args[1].Issuer )
    => last.err # NoError

\* C12: a token made by GenerateToken and not yet expired passes ValidateToken
\* of the issuing manager, which returns the user id, username, email and
\* role(s) the token was generated from; a manager with a different secret
\* rejects that token.
C12_RoundTrip ==
    /\ ( last.op = "Manager.ValidateToken" =>
           \A o \in ManagerAccessOrigins(last.args[2]) :
               /\ ( /\ o[1] = last.args[1]
                    /\ now < last.args[2].claims.ExpiresAt * TicksPerSecond )
                  => /\ last.err = NoError
                     /\ last.ret.UserID = o[2][1]
                     /\ last.ret.Username = o[2][2]
                     /\ last.ret.Email = o[2][3]
                     /\ last.ret.Role = o[2][4]
               /\ o[1].Secret # last.args[1].Secret => last.err # NoError )
    /\ ( last.op = "JWTManager.ValidateToken" =>
           \A o \in JWTManagerAccessOrigins(last.args[2]) :
               /\ ( /\ o[1] = last.args[1]
                    /\ now < last.args[2].claims.ExpiresAt * TicksPerSecond )
                  => /\ last.err = NoError
                     /\ last.ret.UserID = o[2].ID
                     /\ last.ret.Username = o[2].Username
                     /\ last.ret.Email = o[2].Email
                     /\ last.ret.Roles = o[2].Roles
               /\ o[1].Secret # last.args[1].Secret => last.err # NoError )

\* an unexpired access token is validated by its issuing manager some time
\* after its issuance
C12_Witness ==
    /\ last.op = "Manager.ValidateToken"
    /\ \E o \in ManagerAccessOrigins(last.args[2]) : o[1] = last.args[1]
    /\ now > IssuedTick(last.args[2])
    /\ now < last.args[2].claims.ExpiresAt * TicksPerSecond
    /\ last.err = NoError
    /\ last.ret.Email = "test@example.com"

\* the same kind of token is handed to a manager with another secret
C12_WitnessWrongSecret ==
    /\ last.op = "JWTManager.ValidateToken"
    /\ JWTManagerAccessOrigins(last.args[2]) # {}
    /\ last.args[1].Secret = "different-secret"
    /\ now < last.args[2].claims.ExpiresAt * TicksPerSecond
    /\ Contains(last.err, "token signature is invalid")

\* C13: Manager.ValidateRole returns nil exactly when the token passes
\* ValidateToken and requiredRoles is empty or lists the token's role; a valid
\* token whose role is not listed gets an error containing "insufficient
\* permissions"; an invalid token gets an error even with no required role.
C13_ValidateRole ==
    last.op = "Manager.ValidateRole" =>
        LET v == MgrValidateToken(last.args[1], last.args[2], now)
            rr == last.args[3]
            listed == v.err = NoError /\ v.claims.Role \in Range(rr)
        IN  /\ last.err = NoError <=> (v.err = NoError /\ (rr = <<>> \/ listed))
            /\ (v.err = NoError /\ rr # <<>> /\ ~listed)
                   => Contains(last.err, "insufficient permissions")
            /\ v.err # NoError => last.err # NoError

\* an expired token is checked with no required role
C13_Witness ==
    /\ last.op = "Manager.ValidateRole"
    /\ last.args[3] = <<>>
    /\ last.args[2].key = last.args[1].Secret
    /\ last.err # NoError

\* a valid token of role "user" is checked against "admin"
C13_WitnessInsufficient ==
    /\ last.op = "Manager.ValidateRole"
    /\ last.args[3] = <<"admin">>
    /\ MgrValidateToken(last.args[1], last.args[2], now).err = NoError
    /\ Contains(last.err, "insufficient permissions")

\* ========================================================================
\* Properties of the rate limiter
\* ========================================================================
\* C14: in every reachable state of a token bucket made with capacity >= 0
\* and rate >= 0 and checked at non-decreasing times, the token count is at
\* least 0 and at most the capacity.
C14_TokensWithinCapacity ==
    tb # NoBucket => (0 <= tb.tokens /\ tb.tokens <= tb.capacity)

\* the checks of the history that are denied at one instant and followed,
\* a second or more later and with no admitted check in between, by another
DeniedThenRetried ==
    { c \in (1..Len(hist.calls)) \X (1..Len(hist.calls)) :
        /\ c[1] < c[2]
        /\ ~hist.calls[c[1]].ok
        /\ hist.calls[c[2]].t >= hist.calls[c[1]].t + Seconds(1)
        /\ \A k \in (c[1] + 1)..(c[2] - 1) : ~hist.calls[k].ok }

\* C15: a new token bucket of capacity C >= 1 and rate >= 1 admits exactly
\* the first C checks made before a whole second has passed and denies the
\* next; and a check made a second or more after a denied one, with no
\* admitted check in between, is admitted.
C15_BurstThenRefill ==
    (tb # NoBucket /\ tb.capacity >= 1 /\ tb.rate >= 1) =>
        /\ \A i \in 1..Len(hist.calls) :
               hist.calls[i].t - hist.born < Seconds(1)
                   => (hist.calls[i].ok <=> i <= tb.capacity)
        /\ \A c \in DeniedThenRetried : hist.calls[c[2]].ok

\* the same for the buckets whose refill stays within the int range
C15_WithinIntRange ==
    (tb # NoBucket /\ tb.capacity >= 1 /\ tb.rate >= 1
       /\ WholeSeconds(now - hist.born) * tb.rate + tb.capacity <= MaxInt) =>
        /\ \A i \in 1..Len(hist.calls) :
               hist.calls[i].t - hist.born < Seconds(1)
                   => (hist.calls[i].ok <=> i <= tb.capacity)
        /\ \A c \in DeniedThenRetried : hist.calls[c[2]].ok

\* a bucket of capacity 2 has admitted two checks, denied the third, and
\* admitted one a second later
C15_WithinIntRangeWitness ==
    /\ tb # NoBucket /\ tb.capacity = 2 /\ tb.rate = 1
    /\ Len(hist.calls) = 4
    /\ hist.calls[3].t - hist.born < Seconds(1)
    /\ ~hist.calls[3].ok
    /\ <<3, 4>> \in DeniedThenRetried
    /\ hist.calls[4].ok

\* the checks of the history that are later than t - window and admitted
\* before the i-th
AdmittedInWindow(i) ==
    { k \in 1..(i - 1) :
        hist.calls[k].ok /\ hist.calls[k].t > hist.calls[i].t - sw.window }

\* C16: slidingWindow.allow admits a request at time t exactly when fewer than
\* limit earlier admitted requests are later than t - window; requests
\* holds the admitted requests only, so no more than limit requests are
\* admitted in any trailing window, and a request that arrives when the window
\* has passed since the oldest counted request is admitted.
C16_SlidingWindowAllow ==
    sw # NoWindow =>
        /\ \A i \in 1..Len(hist.calls) :
               hist.calls[i].ok <=> Cardinality(AdmittedInWindow(i)) < sw.limit
        /\ Range(sw.requests) \subseteq
               { hist.calls[k].t : k \in { j \in 1..Len(hist.calls) : hist.calls[j].ok } }
        /\ \A i \in 1..Len(hist.calls) :
               Cardinality({ k \in 1..i : hist.calls[k].ok
                                /\ hist.calls[k].t > hist.calls[i].t - sw.window })
                   <= sw.limit
        /\ ( /\ last.op = "allow"
             /\ last.pre.requests # <<>>
             /\ now - last.pre.requests[1] >= last.pre.window ) => last.ret

\* a window of limit 2 is full, denies a request, and admits one when the
\* window has passed since its oldest request
C16_Witness ==
    /\ sw # NoWindow /\ sw.limit = 2
    /\ Len(hist.calls) = 4
    /\ ~hist.calls[3].ok
    /\ last.op = "allow"
    /\ Len(last.pre.requests) = 2
    /\ now - last.pre.requests[1] >= last.pre.window
    /\ last.ret

\* the goroutines that are past rl.mutex.Lock() and before the Unlock
InsideLimiter == { p \in Procs : procs[p].pc \notin {"idle", "lock"} }

\* the time since the last check of a key, at the sweep's reading of the clock
IdleAtSweep(op, k) == sweeper.now - ledger.seen[<<op, k>>]

\* C17: when a sweep of cleanup has gone through both maps, the registry
\* holds no token bucket and no sliding window whose key had received no
\* check for more than 10 minutes when the sweep read the clock.
C17_IdleEntriesSwept ==
    sweeper.pc = "unlock" =>
        /\ \A k \in DOMAIN rl.buckets :
               IdleAtSweep("allow", k) <= Minutes(IdleMinutes)
        /\ \A k \in DOMAIN rl.windows :
               IdleAtSweep("allowSliding", k) <= Minutes(IdleMinutes)

\* the token-bucket half of C17
C17_IdleBucketsSwept ==
    sweeper.pc = "unlock" =>
        \A k \in DOMAIN rl.buckets : IdleAtSweep("allow", k) <= Minutes(IdleMinutes)

\* a sweep has deleted the bucket of a key idle for more than 10 minutes
C17_IdleBucketsSweptWitness ==
    /\ sweeper.pc = "unlock"
    /\ HasKey(ledger.seen, <<"allow", "a">>)
    /\ IdleAtSweep("allow", "a") > Minutes(IdleMinutes)
    /\ ~HasKey(rl.buckets, "a")

\* C18: under every interleaving of allow, allowSliding and cleanup, a
\* goroutine between the registry's Lock and Unlock holds the registry mutex,
\* so its decision and its update are one step for everyone else: a bucket
\* has admitted no more checks than it had tokens at its last refill and its
\* count is what is left of them, a goroutine works on the entry the registry
\* holds for its key, and no bucket or window exists beside the registry's.
C18_DecisionsAtomic ==
    /\ \A p \in InsideLimiter : rl.mutex = p
    /\ \A a \in DOMAIN ledger.tokens :
           /\ ledger.tokens[a].granted <= ledger.tokens[a].avail
           /\ heap[a].val.tokens = ledger.tokens[a].avail - ledger.tokens[a].granted
    /\ \A p \in Procs :
           procs[p].pc \in {"entryLock", "check", "return"} =>
               /\ HasKey(Registry(rl, procs[p].op), procs[p].key)
               /\ Registry(rl, procs[p].op)[procs[p].key] = procs[p].obj
    /\ rl # NoLimiter =>
           Cardinality(DOMAIN heap)
               = Cardinality(DOMAIN rl.buckets) + Cardinality(DOMAIN rl.windows)

\* two goroutines are in allow for the same key with one token: one has been
\* admitted and still holds the registry, the other waits at Lock
C18_Witness ==
    /\ procs["g1"].pc = "return" /\ procs["g1"].op = "allow" /\ procs["g1"].ok
    /\ procs["g2"].pc = "lock" /\ procs["g2"].op = "allow"
    /\ procs["g2"].key = procs["g1"].key
    /\ ledger.tokens[procs["g1"].obj] = [avail |-> 1, granted |-> 1]

\* two first requests for a new key: one is about to make the bucket, the
\* other waits at Lock
C18_WitnessNewKey ==
    /\ procs["g1"].pc = "create" /\ procs["g1"].op = "allow"
    /\ procs["g2"].pc = "lock" /\ procs["g2"].op = "allow"
    /\ procs["g2"].key = procs["g1"].key
    /\ ~HasKey(rl.buckets, procs["g1"].key)

\* the second of two concurrent checks of a one-token bucket is denied
C18_WitnessDenied ==
    /\ procs["g2"].pc = "return" /\ procs["g2"].op = "allow" /\ ~procs["g2"].ok
    /\ last.op = "allow" /\ last.args = <<"g1", procs["g2"].key>> /\ last.ret
    /\ now = 0

\* C25: the access token of the pair Manager.RefreshToken returns for a
\* pair's refresh token validates to the user id, username, email and role of
\* the pair's access token, the held pair being the original one or the
\* result of earlier refreshes.
C25_RefreshKeepsIdentity ==
    ( /\ last.op = "Manager.RefreshToken"
      /\ ~last.panic
      /\ last.err = NoError
      /\ last.pre.kind = "pair"
      /\ last.args[2] = last.pre.pair.RefreshToken )
    => LET new == MgrValidateToken(last.args[1], last.ret.AccessToken, now)
           old == last.pre.pair.AccessToken.claims
       IN  /\ new.err = NoError
           /\ new.claims.UserID = old.UserID
           /\ new.claims.Username = old.Username
           /\ new.claims.Email = old.Email
           /\ new.claims.Role = old.Role

\* the number of admitted checks among the first i of the bucket's history
AdmittedUpTo(i) == Cardinality({ j \in 1..i : hist.calls[j].ok })

\* C29: for a bucket made at time t0 with capacity Burst and refill rate Rate,
\* the number of checks admitted up to any time t is at most
\* Burst + Rate * floor((t - t0) in seconds), whatever the times of the checks.
C29_AdmittedWithinBudget ==
    tb # NoBucket =>
        \A i \in 1..Len(hist.calls) :
            AdmittedUpTo(i) <=
                tb.capacity + tb.rate * ((hist.calls[i].t - hist.born) \div TicksPerSecond)

\* a bucket of one token and one token per second is checked at the start,
\* half a second later (denied), at 1.5 s (refilled at the sub-second offset
\* and admitted: the bound is met) and at 2 s, when only half a second has
\* passed since that refill (denied)
C29_Witness ==
    /\ tb # NoBucket /\ tb.capacity = 1 /\ tb.rate = 1
    /\ Len(hist.calls) = 4
    /\ hist.calls[1].ok
    /\ hist.calls[2].t - hist.born = 1 /\ ~hist.calls[2].ok
    /\ hist.calls[3].t - hist.born = Seconds(1) + 1 /\ hist.calls[3].ok
    /\ AdmittedUpTo(3) = tb.capacity + tb.rate * 1
    /\ hist.calls[4].t - hist.born = Seconds(2) /\ ~hist.calls[4].ok

\* C30: the rate limiter cannot deadlock. An entry lock is requested only by
\* the holder of the registry lock (allow and allowSliding lock rl.mutex
\* first, and so does the sweep before it locks a window), so the entry lock
\* is free whenever it is requested; and every call that requests the
\* registry lock acquires it and returns, under fair scheduling.
C30_NoDeadlock ==
    /\ [](\A p \in Procs :
             /\ procs[p].pc \in {"lookup", "create", "entryLock", "check", "return"}
                    => rl.mutex = p
             /\ procs[p].pc = "entryLock" => Unlocked(heap[procs[p].obj].mutex)
             /\ procs[p].pc = "check" => heap[procs[p].obj].mutex = p)
    /\ [](sweeper.pc \in {"buckets", "windows", "unlock"} =>
             /\ rl.mutex = "cleanup"
             /\ \A a \in DOMAIN heap : Unlocked(heap[a].mutex))
    /\ \A p \in Procs :
           (procs[p].pc = "lock") ~> (procs[p].pc = "idle")

\* an allowSliding call waits for the registry lock while the sweep holds it
\* and is about to lock the windows, and the other goroutine waits as well
C30_Witness ==
    /\ sweeper.pc = "windows"
    /\ rl.mutex = "cleanup"
    /\ DOMAIN rl.windows # {}
    /\ procs["g1"].pc = "lock" /\ procs["g1"].op = "allowSliding"
    /\ procs["g2"].pc = "lock" /\ procs["g2"].op = "allow"

\* the header is "Bearer", one space and a token that is not empty
IsBearerHeader(h) ==
    /\ Len(h) > 7
    /\ SubSeq(h, 1, 7) = <<"B", "e", "a", "r", "e", "r", " ">>

\* C23: ExtractTokenFromHeader returns the token for a header of the form
\* "Bearer <token>" and an error for every other header: the empty header, a
\* header without a scheme, another scheme, "Bearer" without a token, and the
\* scheme in lower case.
C23_ExtractTokenFromHeader ==
    last.op = "JWTManager.ExtractTokenFromHeader" =>
        IF IsBearerHeader(last.args[1])
        THEN /\ last.err = NoError
             /\ last.ret = SubSeq(last.args[1], 8, Len(last.args[1]))
        ELSE last.err # NoError

\* C24: with a store in which the creator saves the user under its username
\* and the provider looks users up in it: Login of a registered user
\* succeeds with the password the store holds for it and fails with any
\* other; ChangePassword called with the generated id of a stored user, that
\* user's password and a strong new password succeeds and leaves the new
\* password as the one Login accepts.
C24_RegisterLoginChangePassword ==
    /\ (last.op = "AuthService.Register" /\ last.err = NoError) =>
           /\ HasKey(users, last.args[1])
           /\ CheckPassword(last.args[3], users[last.args[1]].Password)
    /\ (last.op = "AuthService.Login" /\ HasKey(last.pre, last.args[1])) =>
           (last.err = NoError
               <=> CheckPassword(last.args[2], last.pre[last.args[1]].Password))
    /\ last.op = "AuthService.ChangePassword" =>
           \A u \in DOMAIN last.pre :
               ( /\ last.pre[u].ID = last.args[1]
                 /\ CheckPassword(last.args[2], last.pre[u].Password)
                 /\ ValidatePasswordStrength(last.args[3]) = NoError )
               => /\ last.err = NoError
                  /\ CheckPassword(last.args[3], users[u].Password)

====
